---- MODULE Spec2Model ----
(***************************************************************************)
(* Checkout / settlement orchestration of Ghepes/checkout-ui-app.          *)
(*                                                                         *)
(* The Processor Gateway (Stripe) is the only store: charges, sessions,    *)
(* payment intents and transfers live there.  The webhook handlers         *)
(* (Settlement Reconciler) and the checkout endpoints (Session Builder)    *)
(* are modelled call by call: one action per Gateway call of a handler     *)
(* invocation, so that invocations can be interleaved and every call can   *)
(* fail on its own.                                                        *)
(***************************************************************************)
EXTENDS Integers, Sequences, FiniteSets, TLC

\* ------------------------------------------------------------------------
\* Bounds of the model
\* ------------------------------------------------------------------------
\* notifications delivered to a webhook handler in one behaviour
MaxNotifs == 3
\* notifications delivered while two invocations may overlap
MaxConcNotifs == 2

\* ------------------------------------------------------------------------
\* Program constants
\* ------------------------------------------------------------------------
\* limit: 10 of stripe.transfers.list
ListLimit == 10
\* 10% platform fee, as a divisor of the integer amount
FeeDivisor == 10

NoAccount == "none"
Accounts == {"acct_A", "acct_B"}
TheCharge == "ch_1"
OtherCharge == "ch_0"
Procs == {1, 2}
\* the webhook routes of the repository
Handlers == {"part_008", "webhooks_1", "webhooks_2", "webhooks_3"}
Kinds == {"checkout.session.completed", "payment_intent.succeeded", "charge.succeeded"}
Signatures == {"missing", "invalid", "valid"}

\* ------------------------------------------------------------------------
\* Sequence helpers
\* ------------------------------------------------------------------------
RECURSIVE SumAmounts(_)
SumAmounts(s) == IF s = <<>> THEN 0 ELSE Head(s).amount + SumAmounts(Tail(s))

RECURSIVE SelectItems(_, _)
\* Array.prototype.filter on a list of items, Test(item) given as a set of kept accounts
SelectItems(s, keep) ==
  IF s = <<>> THEN <<>>
  ELSE IF Head(s).acct \in keep THEN <<Head(s)>> \o SelectItems(Tail(s), keep)
       ELSE SelectItems(Tail(s), keep)

Range(s) == {s[i] : i \in DOMAIN s}

RECURSIVE Reverse(_)
Reverse(s) == IF s = <<>> THEN <<>> ELSE Reverse(Tail(s)) \o <<Head(s)>>

Take(s, n) == IF Len(s) <= n THEN s ELSE SubSeq(s, 1, n)

RECURSIVE SelectSeq2(_, _, _)
\* the elements of s whose field f-value (given by key[i]) is in keep, in order
SelectSeq2(s, key, keep) ==
  IF s = <<>> THEN <<>>
  ELSE IF Head(key) \in keep
       THEN <<Head(s)>> \o SelectSeq2(Tail(s), Tail(key), keep)
       ELSE SelectSeq2(Tail(s), Tail(key), keep)

\* ------------------------------------------------------------------------
\* Arithmetic of the fee policies
\* ------------------------------------------------------------------------
\* Math.floor(x * 0.1) for a non-negative integer amount
FloorTenth(x) == x \div FeeDivisor

\* Math.round(x * (10 / 100)): round half up
RoundTenth(x) == (x + 5) \div FeeDivisor

\* part_008 lines 151-153: transferAmount = accountAmount - floor(10%)
ItemPathTransferAmount(accountAmount) == accountAmount - FloorTenth(accountAmount)

\* part_008 lines 193-198, webhooks/route.ts lines 345-351
FallbackPlatformFee(amount) == FloorTenth(amount)

AmountPerVendor(amount, n) == (amount - FallbackPlatformFee(amount)) \div n

\* ------------------------------------------------------------------------
\* State
\* ------------------------------------------------------------------------
VARIABLES
  handler,      \* which webhook route is deployed
  cfg,          \* the charge, its session and payment intent (read-only metadata)
  chargeGroup,  \* charge.transfer_group at the Gateway (charges.update writes it)
  transfers,    \* the Gateway's transfers, oldest first
  inv,          \* per handler invocation: position and locals
  delivered,    \* notifications received so far
  anyFail,      \* history: some Gateway call of the behaviour failed
  others,       \* invocations for the other charge between lookup and creation
  co,           \* the checkout request being served: position and locals
  sessions,     \* how many checkout sessions the Gateway has created
  customers,    \* the Gateway's customers, oldest first
  idr,          \* the identity-resolver call in progress, and the one it repeats
  idc           \* per caller: an identity-resolver call running beside the other's

vars == <<handler, cfg, chargeGroup, transfers, inv, delivered, anyFail, others,
          co, sessions, customers, idr, idc>>

idVars == <<customers, idr, idc>>

hookVars == <<handler, cfg, chargeGroup, transfers, inv, delivered, anyFail, others>>

\* const ACCOUNT_GROUP_ID of the deployed route
ACCOUNT_GROUP_ID ==
  IF handler = "webhooks_3" THEN "acctgrp_ReaChY6ZbHKyvb" ELSE "default"


\* ------------------------------------------------------------------------
\* The charge under settlement, as the Gateway holds it (written by a
\* checkout endpoint, then paid).  Line items carry the Stripe product, the
\* subtotal and the product's own metadata.stripeConnectedAccountId.
\* ------------------------------------------------------------------------
Item(p, amt, m) == [product |-> p, amount |-> amt, meta |-> m]

Carts ==
  { << Item("p1", 1000, NoAccount) >>,
    << Item("p1", 2000, NoAccount), Item("p3", 500, NoAccount) >>,
    << Item("p1", 1000, NoAccount), Item("p2", 505, NoAccount) >>,
    << Item("p1", 15, NoAccount), Item("p2", 7, "acct_B"), Item("p3", 500, NoAccount) >> }

\* metadata.product_connected_accounts, already split on "," and ":"
ProductMaps ==
  { << >>,
    << <<"p1", "acct_A">> >>,
    << <<"p1", "acct_A">>, <<"p2", "acct_B">> >>,
    << <<"p1", "acct_A">>, <<"p2", "acct_A">> >> }

\* metadata.connected_account_ids, already split on "," and filtered
IdLists ==
  { << >>, <<"acct_A">>, <<"acct_A", "acct_B">>, <<"acct_A", "acct_A">>, <<"acct_B">> }

\* paymentIntent.metadata.transfer_data: absent, or a string that JSON.parse
\* rejects, or one it parses to something that is no list, or a list
NoTransferData == [shape |-> "absent", list |-> <<>>]

Charge(items, pca, ids, xfer, mv, grp, lc, spi, cust) ==
  [ items |-> items, pca |-> pca, sessIds |-> ids, piIds |-> ids,
    piTransfer |-> xfer, multiVendor |-> mv, group |-> grp,
    latestCharge |-> lc, sessPI |-> spi, customer |-> cust,
    transferData |-> NoTransferData ]

\* every plan shape on a plain unsettled charge
PlainCharges ==
  { Charge(c, m, ids, FALSE, FALSE, g, TRUE, TRUE, "none") :
      c \in Carts, m \in ProductMaps, ids \in IdLists, g \in {ACCOUNT_GROUP_ID} }

\* the short-circuit and customer cases on two plan shapes
SpecialCharges ==
  { Charge(c, << <<"p1", "acct_A">> >>, <<"acct_A", "acct_B">>, x, mv, g, lc, spi, cu) :
      c \in { << Item("p1", 1000, NoAccount), Item("p2", 505, NoAccount) >> },
      x \in BOOLEAN, mv \in BOOLEAN, g \in {ACCOUNT_GROUP_ID, "order_u1"},
      lc \in BOOLEAN, spi \in BOOLEAN, cu \in {"none", "primary", "duplicate"} }

\* charges whose payment intent carries a transfer_data plan (webhooks_1)
Planned(amount, dest) == [amount |-> amount, destination |-> dest]

\* an element of the parsed list without amount and destination
Malformed == [amount |-> 0, destination |-> ""]

TransferDataValues ==
  { NoTransferData,
    [shape |-> "unparsable", list |-> <<>>],
    [shape |-> "object", list |-> <<>>],
    [shape |-> "list", list |-> <<>>],
    [shape |-> "list", list |-> << Planned(900, "acct_A") >>],
    [shape |-> "list", list |-> << Planned(900, "acct_A"), Planned(455, "acct_B") >>],
    [shape |-> "list", list |-> << Planned(900, "acct_A"), Planned(900, "acct_A") >>],
    [shape |-> "list", list |-> << Malformed >>],
    [shape |-> "list", list |-> << Planned(900, "acct_A"), Malformed >>] }

TransferDataCharges ==
  { [ Charge(<< Item("p1", 1000, NoAccount), Item("p2", 505, NoAccount) >>, << >>, << >>,
             FALSE, FALSE, "order_u1", lc, spi, "none")
      EXCEPT !.transferData = td] :
      td \in TransferDataValues, lc \in BOOLEAN, spi \in BOOLEAN }

\* charges whose session metadata holds connected_account_ids while the
\* payment intent metadata holds none (a plan written without the payment-level
\* copy)
SessionOnlyCharges ==
  { [ Charge(<< Item("p1", 1000, NoAccount), Item("p2", 505, NoAccount) >>,
             << <<"p1", "acct_A">> >>, ids, FALSE, FALSE, ACCOUNT_GROUP_ID,
             TRUE, TRUE, "none")
      EXCEPT !.piIds = << >> ] :
      ids \in { <<"acct_A">>, <<"acct_A", "acct_B">> } }

ChargeStates ==
  IF handler \in {"webhooks_1", "webhooks_2"} THEN TransferDataCharges
  ELSE PlainCharges \cup SpecialCharges \cup SessionOnlyCharges

ChargeAmount(ch) == SumAmounts(ch.items)

\* no identity-resolver call yet
NoCall == [op |-> "", arg |-> "", result |-> "", thrown |-> FALSE, calls |-> << >>]

IdleResolver == [pc |-> "idle", cur |-> NoCall, prev |-> NoCall]

\* a response body of the checkout endpoint: {error, details} or {url}
NoBody == [error |-> "", details |-> "", url |-> ""]

\* a metadata key that is not set
NoPlan == [present |-> FALSE, plan |-> << >>]

\* no session requested yet
NoSessionParams ==
  [ line_items |-> << >>, metadata |-> [transfer_groups |-> NoPlan],
    payment_intent_data |-> [transfer_group |-> "", metadata |-> [transfer_groups |-> NoPlan]],
    customer |-> "", customer_email |-> "" ]

\* no checkout request in progress
IdleCheckout ==
  [ pc |-> "idle", method |-> "", items |-> [defined |-> FALSE, list |-> << >>],
    userEmail |-> FALSE, idx |-> 0, lineItems |-> << >>, transferGroups |-> << >>,
    customer |-> "", sessionParams |-> NoSessionParams,
    calls |-> << >>, resp |-> 0, body |-> NoBody, chains |-> << >> ]

IdleInv ==
  [ pc |-> "idle", kind |-> "", sig |-> "", ids |-> <<>>, queue |-> <<>>,
    path |-> "", seen |-> <<>>, calls |-> <<>>, resp |-> 0, paid |-> TRUE ]

Transfer(src, dest, amt, grp) == [src |-> src, dest |-> dest, amount |-> amt, group |-> grp]

\* transfers of other charges already in the shared group before this charge
EarlierTransfers ==
  { << >>, << Transfer(OtherCharge, "acct_A", 450, ACCOUNT_GROUP_ID) >> }

HookInit ==
  /\ handler \in Handlers
  /\ cfg \in ChargeStates
  /\ chargeGroup = cfg.group
  /\ transfers \in EarlierTransfers
  /\ inv = [p \in Procs |-> IdleInv]
  /\ delivered = 0
  /\ others = 0
  /\ anyFail = FALSE
  /\ co = IdleCheckout
  /\ sessions = 0
  /\ customers = << >>
  /\ idr = IdleResolver
  /\ idc = [p \in Procs |-> IdleResolver]

\* ------------------------------------------------------------------------
\* Gateway reads used by the Reconciler
\* ------------------------------------------------------------------------
\* stripe.transfers.list({destination, transfer_group, limit: 10}): newest first
ExistingTransfers(dest) ==
  LET all == Reverse(transfers)
      key == [i \in DOMAIN all |->
                IF all[i].dest = dest /\ all[i].group = ACCOUNT_GROUP_ID
                THEN "hit" ELSE "miss"]
  IN  Take(SelectSeq2(all, key, {"hit"}), ListLimit)

\* the lookup left out: every destination is taken as not yet paid
TransferExistsNoLookup(chargeId, dest) == FALSE

\* existingTransfers.data.some((t) => t.source_transaction === chargeId)
TransferExists(chargeId, dest) ==
  \E t \in Range(ExistingTransfers(dest)) : t.src = chargeId

\* ------------------------------------------------------------------------
\* Plan re-derivation of createTransfersToConnectedAccounts (part_008)
\* ------------------------------------------------------------------------
RECURSIVE ProductConnectedAccounts(_)
\* the reduce over "productId:accountId" pairs: a later pair overwrites
ProductConnectedAccounts(pairs) ==
  IF pairs = <<>> THEN [x \in {} |-> NoAccount]
  ELSE LET rest == ProductConnectedAccounts(SubSeq(pairs, 1, Len(pairs) - 1))
           last == pairs[Len(pairs)]
       IN  [x \in DOMAIN rest \cup {last[1]} |->
              IF x = last[1] THEN last[2] ELSE rest[x]]

\* productConnectedAccounts[productId] || product.metadata.stripeConnectedAccountId
ConnectedAccountOf(it, pca) ==
  LET m == ProductConnectedAccounts(pca)
  IN  IF it.product \in DOMAIN m THEN m[it.product] ELSE it.meta

\* session.line_items mapped, then filtered on connectedAccountIds.includes
MatchedLineItems(ch, ids) ==
  LET mapped == [i \in DOMAIN ch.items |->
                   [acct |-> ConnectedAccountOf(ch.items[i], ch.pca),
                    amount |-> ch.items[i].amount]]
  IN  SelectItems(mapped, Range(ids) \ {NoAccount})

RECURSIVE AccountAmounts(_)
\* accountAmounts[acct] += item.amount, keys in insertion order (Object.entries)
AccountAmounts(lineItems) ==
  IF lineItems = <<>> THEN <<>>
  ELSE LET acc == AccountAmounts(SubSeq(lineItems, 1, Len(lineItems) - 1))
           it  == lineItems[Len(lineItems)]
       IN  IF \E i \in DOMAIN acc : acc[i].acct = it.acct
           THEN [i \in DOMAIN acc |->
                   IF acc[i].acct = it.acct
                   THEN [acc[i] EXCEPT !.amount = @ + it.amount] ELSE acc[i]]
           ELSE Append(acc, [acct |-> it.acct, amount |-> it.amount])

\* the (destination, transfer amount) pairs the line-item loop walks
ItemPathQueue(lineItems) ==
  LET aa == AccountAmounts(lineItems)
  IN  [i \in DOMAIN aa |->
         [acct |-> aa[i].acct, amount |-> ItemPathTransferAmount(aa[i].amount)]]

\* the pairs the fallback loop walks: every listed id, an even split
FallbackQueue(ids, amount) ==
  [i \in DOMAIN ids |-> [acct |-> ids[i], amount |-> AmountPerVendor(amount, Len(ids))]]

\* which loop createTransfersToConnectedAccounts takes (lines 111, 190)
SettlementPath(ch, ids) ==
  IF MatchedLineItems(ch, ids) # <<>> THEN "items" ELSE "fallback"

SettlementQueue(ch, ids) ==
  IF SettlementPath(ch, ids) = "items"
  THEN ItemPathQueue(MatchedLineItems(ch, ids))
  ELSE FallbackQueue(ids, ChargeAmount(ch))

\* ------------------------------------------------------------------------
\* Webhook handler of part_008: POST + createTransfersToConnectedAccounts.
\* An action is the code run when one awaited Gateway call completes, up to
\* the next await.  F is the set of outcomes a call may have (TRUE = success).
\* ------------------------------------------------------------------------
Called(r, name) == [r EXCEPT !.calls = Append(@, name)]

Respond(r, status) == [r EXCEPT !.pc = "done", !.resp = status]

Goto(r, label) == [r EXCEPT !.pc = label]

\* the error escapes the handler: the framework answers 500
HandlerRethrow(r) == [r EXCEPT !.pc = "done", !.resp = 500]

\* catch blocks of POST (lines 450, 506, 561) and of createTransfers (252):
\* log, fall through to the final NextResponse.json({ received: true })
HandlerCatch(r) == Respond(r, 200)

\* the id list each event kind hands to createTransfers (lines 439, 494, 549)
SettlementIds(kind) ==
  IF kind = "checkout.session.completed" THEN cfg.sessIds ELSE cfg.piIds

\* createTransfersToConnectedAccounts entry: lines 24-27, then first await
EnterCreateTransfers(r, ids) ==
  IF ids = <<>> THEN Respond(r, 200)
  ELSE [r EXCEPT !.ids = ids, !.pc = "ct_charge"]

\* next iteration of a transfer loop, or return
NextDestination(r) ==
  IF r.queue = <<>> THEN Respond(r, 200) ELSE Goto(r, "t_list")

SkipDestination(r) == NextDestination([r EXCEPT !.queue = Tail(@)])

\* how the iteration of the destination at the head of the queue ended:
\* "exists" (continue, lines 148, 219), "created" (lines 179, 247) or
\* "failed" (the catch of that iteration, lines 180, 248)
Outcome(r, how) ==
  [r EXCEPT !.seen = Append(@, [acct |-> Head(r.queue).acct, outcome |-> how])]

\* a per-iteration catch that would leave the loop instead of continuing
DestinationFailedAborts(r) == Respond(Outcome(r, "failed"), 200)

\* lines 180-182 and 248-250: the error is logged, the loop goes on
DestinationFailed(r) == SkipDestination(Outcome(r, "failed"))

\* lines 390-395
AfterCustomer(r) ==
  IF ~cfg.sessPI THEN Respond(r, 200) ELSE Goto(r, "h_pi")

\* lines 463-476 / 408-421: transfer short-circuit, latest_charge check
AfterPaymentIntent(r) ==
  IF cfg.piTransfer THEN Respond(r, 200)
  ELSE IF ~cfg.latestCharge THEN Respond(r, 200)
  ELSE Goto(r, "h_charge")

\* part_008: the event branch taken after a valid signature, up to its first await
P8Dispatch(r) ==
  CASE r.kind = "checkout.session.completed" ->
         IF cfg.customer # "none" THEN Goto(r, "h_customer") ELSE AfterCustomer(r)
    [] r.kind = "payment_intent.succeeded" -> AfterPaymentIntent(r)
    [] r.kind = "charge.succeeded" ->
         \* event.data.object is the charge as it was when it succeeded
         IF cfg.group = ACCOUNT_GROUP_ID THEN Goto(r, "h_pi") ELSE Respond(r, 200)

Set(p, r) == inv' = [inv EXCEPT ![p] = r]

Fail(ok) == anyFail' = (anyFail \/ ~ok)

\* getPrimaryCustomerId (part_009 lines 114-134) inside lines 356-379
P8CustomerRetrieve(p, F) ==
  /\ inv[p].pc = "h_customer"
  /\ \E ok \in F :
       LET r == Called(inv[p], "customers.retrieve")
           differs == ok /\ cfg.customer = "duplicate"
       IN  /\ Set(p, IF differs THEN Goto(r, "h_sessupd") ELSE AfterCustomer(r))
           /\ Fail(ok)
  /\ UNCHANGED <<idVars, co, sessions, others, handler, cfg, chargeGroup, transfers, delivered>>

P8SessionUpdate(p, F) ==
  /\ inv[p].pc = "h_sessupd"
  /\ \E ok \in F :
       LET r == Called(inv[p], "checkout.sessions.update")
       IN  /\ Set(p, IF ok THEN AfterCustomer(r) ELSE HandlerCatch(r))
           /\ Fail(ok)
  /\ UNCHANGED <<idVars, co, sessions, others, handler, cfg, chargeGroup, transfers, delivered>>

\* lines 398-421 (checkout.session.completed) and 531-560 (charge.succeeded)
P8PaymentIntentRetrieve(p, F) ==
  /\ inv[p].pc = "h_pi"
  /\ \E ok \in F :
       LET r == Called(inv[p], "paymentIntents.retrieve")
       IN  /\ Set(p, IF ~ok THEN HandlerCatch(r)
                     ELSE IF r.kind = "charge.succeeded"
                          THEN IF cfg.piTransfer THEN Respond(r, 200)
                               ELSE EnterCreateTransfers(r, SettlementIds(r.kind))
                          ELSE AfterPaymentIntent(r))
           /\ Fail(ok)
  /\ UNCHANGED <<idVars, co, sessions, others, handler, cfg, chargeGroup, transfers, delivered>>

\* lines 425-449 and 480-505
P8ChargeRetrieve(p, F) ==
  /\ inv[p].pc = "h_charge"
  /\ \E ok \in F :
       LET r == Called(inv[p], "charges.retrieve")
       IN  /\ Set(p, IF ~ok THEN HandlerCatch(r)
                     ELSE IF chargeGroup # ACCOUNT_GROUP_ID THEN Goto(r, "h_chupd")
                     ELSE EnterCreateTransfers(r, SettlementIds(r.kind)))
           /\ Fail(ok)
  /\ UNCHANGED <<idVars, co, sessions, others, handler, cfg, chargeGroup, transfers, delivered>>

P8ChargeUpdate(p, F) ==
  /\ inv[p].pc = "h_chupd"
  /\ \E ok \in F :
       LET r == Called(inv[p], "charges.update")
       IN  /\ Set(p, IF ok THEN EnterCreateTransfers(r, SettlementIds(r.kind))
                     ELSE HandlerCatch(r))
           /\ chargeGroup' = IF ok THEN ACCOUNT_GROUP_ID ELSE chargeGroup
           /\ Fail(ok)
  /\ UNCHANGED <<idVars, co, sessions, others, handler, cfg, transfers, delivered>>

\* createTransfersToConnectedAccounts lines 35-40: chargeId starts with "ch_"
CTChargeRetrieve(p, F) ==
  /\ inv[p].pc = "ct_charge"
  /\ \E ok \in F :
       LET r == Called(inv[p], "charges.retrieve")
       IN  /\ Set(p, IF ok THEN Goto(r, "ct_pi") ELSE HandlerCatch(r))
           /\ Fail(ok)
  /\ UNCHANGED <<idVars, co, sessions, others, handler, cfg, chargeGroup, transfers, delivered>>

\* lines 35-53
CTPaymentIntentRetrieve(p, F) ==
  /\ inv[p].pc = "ct_pi"
  /\ \E ok \in F :
       LET r == Called(inv[p], "paymentIntents.retrieve")
       IN  /\ Set(p, IF ~ok THEN HandlerCatch(r)
                     ELSE IF cfg.piTransfer THEN Respond(r, 200)
                     ELSE Goto(r, "ct_sessions"))
           /\ Fail(ok)
  /\ UNCHANGED <<idVars, co, sessions, others, handler, cfg, chargeGroup, transfers, delivered>>

\* lines 56-131 and 190-204: the session, the path, the list to walk
CTSessionsList(p, F) ==
  /\ inv[p].pc = "ct_sessions"
  /\ \E ok \in F :
       LET r == Called(inv[p], "checkout.sessions.list")
       IN  /\ Set(p, IF ~ok THEN HandlerCatch(r)
                     ELSE IF cfg.multiVendor THEN Respond(r, 200)
                     ELSE NextDestination(
                            [r EXCEPT !.path = SettlementPath(cfg, r.ids),
                                      !.queue = SettlementQueue(cfg, r.ids)]))
           /\ Fail(ok)
  /\ UNCHANGED <<idVars, co, sessions, others, handler, cfg, chargeGroup, transfers, delivered>>

\* lines 132-149 and 205-220: the existing-transfer lookup of one destination
CTTransfersList(p, F) ==
  /\ inv[p].pc = "t_list"
  /\ \E ok \in F :
       LET r == Called(inv[p], "transfers.list")
       IN  /\ Set(p, IF ~ok THEN DestinationFailed(r)
                     ELSE IF TransferExists(TheCharge, Head(r.queue).acct)
                          THEN SkipDestination(Outcome(r, "exists"))
                          ELSE Goto(r, "t_account"))
           /\ Fail(ok)
  /\ UNCHANGED <<idVars, co, sessions, others, handler, cfg, chargeGroup, transfers, delivered>>

\* lines 159-162 and 222-225
CTAccountRetrieve(p, F) ==
  /\ inv[p].pc = "t_account"
  /\ \E ok \in F :
       LET r == Called(inv[p], "accounts.retrieve")
       IN  /\ Set(p, IF ok THEN Goto(r, "t_create") ELSE DestinationFailed(r))
           /\ Fail(ok)
  /\ UNCHANGED <<idVars, co, sessions, others, handler, cfg, chargeGroup, transfers, delivered>>

\* lines 164-183 and 231-250
CTTransferCreate(p, F) ==
  /\ inv[p].pc = "t_create"
  /\ \E ok \in F :
       LET r == Called(inv[p], "transfers.create")
           d == Head(r.queue)
       IN  /\ Set(p, IF ok THEN SkipDestination(Outcome(r, "created"))
                     ELSE DestinationFailed(r))
           /\ transfers' = IF ok
                THEN Append(transfers,
                            Transfer(TheCharge, d.acct, d.amount, ACCOUNT_GROUP_ID))
                ELSE transfers
           /\ Fail(ok)
  /\ UNCHANGED <<idVars, co, sessions, others, handler, cfg, chargeGroup, delivered>>

\* ------------------------------------------------------------------------
\* Webhook handler of src/app/api/webhooks/route.ts lines 8-111 (webhooks_1):
\* replays paymentIntent.metadata.transfer_data, no existing-transfer lookup
\* ------------------------------------------------------------------------
NoGroup == ""

W1Dispatch(r) ==
  IF r.kind \in {"payment_intent.succeeded", "checkout.session.completed"}
  THEN Goto(r, "w1_pi") ELSE Respond(r, 200)

PlannedQueue(list) ==
  [i \in DOMAIN list |-> [acct |-> list[i].destination, amount |-> list[i].amount]]

NextPlanned(r) ==
  IF r.queue = <<>> THEN Respond(r, 200) ELSE Goto(r, "w1_create")

\* lines 52-104: decode the plan, find the charge, enter the loop
W1Decode(r) ==
  IF cfg.transferData.shape # "list" THEN Respond(r, 200)
  ELSE IF ~cfg.latestCharge THEN Respond(r, 200)
  ELSE NextPlanned([r EXCEPT !.path = "planned",
                             !.queue = PlannedQueue(cfg.transferData.list)])

\* line 47; the id is session.payment_intent for checkout.session.completed
W1PaymentIntentRetrieve(p, F) ==
  /\ inv[p].pc = "w1_pi"
  /\ LET idKnown == inv[p].kind = "payment_intent.succeeded" \/ cfg.sessPI
     IN  \E ok \in (IF idKnown THEN F ELSE {FALSE}) :
           LET r == Called(inv[p], "paymentIntents.retrieve")
           IN  /\ Set(p, IF ok THEN W1Decode(r) ELSE HandlerCatch(r))
               /\ Fail(ok \/ ~idKnown)
  /\ UNCHANGED <<idVars, co, sessions, others, handler, cfg, chargeGroup, transfers, delivered>>

\* lines 78-98
W1TransferCreate(p, F) ==
  /\ inv[p].pc = "w1_create"
  /\ \E ok \in (IF Head(inv[p].queue).acct = "" THEN {FALSE} ELSE F) :
       LET r == Called(inv[p], "transfers.create")
           d == Head(r.queue)
       IN  /\ Set(p, NextPlanned([Outcome(r, IF ok THEN "created" ELSE "failed")
                                     EXCEPT !.queue = Tail(@)]))
           /\ transfers' = IF ok
                THEN Append(transfers, Transfer(TheCharge, d.acct, d.amount, NoGroup))
                ELSE transfers
           /\ Fail(ok)
  /\ UNCHANGED <<idVars, co, sessions, others, handler, cfg, chargeGroup, delivered>>

W1Step(p, F) ==
  \/ W1PaymentIntentRetrieve(p, F)
  \/ W1TransferCreate(p, F)

\* ------------------------------------------------------------------------
\* Webhook handler of src/app/api/webhooks/route.ts lines 122-233
\* (webhooks_2): checkout.session.completed only; the plan replay of lines
\* 161-201 is the code of lines 52-104, so its loop is W1TransferCreate.
\* The dashboard notification of lines 204-228 is no Gateway call, is caught,
\* and changes nothing here.
\* ------------------------------------------------------------------------
\* lines 142-155: a paid session without payment_intent is answered 400
W2Dispatch(r) ==
  IF r.kind = "checkout.session.completed" /\ r.paid
  THEN IF cfg.sessPI THEN Goto(r, "w2_pi") ELSE Respond(r, 400)
  ELSE Respond(r, 200)

\* line 158: the retrieval is outside every try block
W2PaymentIntentRetrieve(p, F) ==
  /\ inv[p].pc = "w2_pi"
  /\ \E ok \in F :
       LET r == Called(inv[p], "paymentIntents.retrieve")
       IN  /\ Set(p, IF ok THEN W1Decode(r) ELSE HandlerRethrow(r))
           /\ Fail(ok)
  /\ UNCHANGED <<idVars, co, sessions, others, handler, cfg, chargeGroup, transfers, delivered>>

\* ------------------------------------------------------------------------
\* Webhook handler of src/app/api/webhooks/route.ts lines 248-459
\* (webhooks_3): even split of the charge; only the charge.succeeded branch
\* looks for an existing transfer
\* ------------------------------------------------------------------------
W3Dispatch(r) ==
  CASE r.kind = "checkout.session.completed" ->
         IF ~cfg.sessPI THEN Respond(r, 200) ELSE Goto(r, "w3_pi")
    [] r.kind = "charge.succeeded" ->
         IF cfg.group = ACCOUNT_GROUP_ID THEN Goto(r, "w3_sessions") ELSE Respond(r, 200)
    [] OTHER -> Respond(r, 200)

\* lines 338-356: nothing to pay, or the even split and the unguarded loop
W3Split(r) ==
  IF r.ids = <<>> THEN Respond(r, 200)
  ELSE [r EXCEPT !.path = "split", !.pc = "w3_create",
                 !.queue = FallbackQueue(r.ids, ChargeAmount(cfg))]

\* lines 309-336: the listed ids, else the products' own accounts
W3CollectIds(r) ==
  IF cfg.sessIds # <<>> THEN W3Split([r EXCEPT !.ids = cfg.sessIds])
  ELSE IF cfg.items = <<>> THEN W3Split([r EXCEPT !.ids = <<>>])
  ELSE [r EXCEPT !.ids = <<>>, !.queue = cfg.items, !.pc = "w3_product"]

W3PaymentIntentRetrieve(p, F) ==
  /\ inv[p].pc = "w3_pi"
  /\ \E ok \in F :
       LET r == Called(inv[p], "paymentIntents.retrieve")
       IN  /\ Set(p, IF ~ok THEN HandlerCatch(r)
                     ELSE IF ~cfg.latestCharge THEN Respond(r, 200)
                     ELSE Goto(r, "w3_charge"))
           /\ Fail(ok)
  /\ UNCHANGED <<idVars, co, sessions, others, handler, cfg, chargeGroup, transfers, delivered>>

W3ChargeRetrieve(p, F) ==
  /\ inv[p].pc = "w3_charge"
  /\ \E ok \in F :
       LET r == Called(inv[p], "charges.retrieve")
       IN  /\ Set(p, IF ~ok THEN HandlerCatch(r)
                     ELSE IF chargeGroup # ACCOUNT_GROUP_ID THEN Goto(r, "w3_chupd")
                     ELSE W3CollectIds(r))
           /\ Fail(ok)
  /\ UNCHANGED <<idVars, co, sessions, others, handler, cfg, chargeGroup, transfers, delivered>>

W3ChargeUpdate(p, F) ==
  /\ inv[p].pc = "w3_chupd"
  /\ \E ok \in F :
       LET r == Called(inv[p], "charges.update")
       IN  /\ Set(p, IF ok THEN W3CollectIds(r) ELSE HandlerCatch(r))
           /\ chargeGroup' = IF ok THEN ACCOUNT_GROUP_ID ELSE chargeGroup
           /\ Fail(ok)
  /\ UNCHANGED <<idVars, co, sessions, others, handler, cfg, transfers, delivered>>

\* lines 321-334: one product of metadata.product_ids
W3ProductRetrieve(p, F) ==
  /\ inv[p].pc = "w3_product"
  /\ \E ok \in F :
       LET r    == Called(inv[p], "products.retrieve")
           it   == Head(r.queue)
           ids2 == IF ok /\ it.meta # NoAccount THEN Append(r.ids, it.meta) ELSE r.ids
           r2   == [r EXCEPT !.ids = ids2, !.queue = Tail(@)]
       IN  /\ Set(p, IF r2.queue = <<>> THEN W3Split(r2) ELSE r2)
           /\ Fail(ok)
  /\ UNCHANGED <<idVars, co, sessions, others, handler, cfg, chargeGroup, transfers, delivered>>

\* lines 356-373: create, no lookup before it
W3TransferCreate(p, F) ==
  /\ inv[p].pc = "w3_create"
  /\ \E ok \in F :
       LET r  == Called(inv[p], "transfers.create")
           d  == Head(r.queue)
           r2 == [r EXCEPT !.queue = Tail(@)]
       IN  /\ Set(p, IF r2.queue = <<>> THEN Respond(r2, 200) ELSE r2)
           /\ transfers' = IF ok
                THEN Append(transfers,
                            Transfer(TheCharge, d.acct, d.amount, ACCOUNT_GROUP_ID))
                ELSE transfers
           /\ Fail(ok)
  /\ UNCHANGED <<idVars, co, sessions, others, handler, cfg, chargeGroup, delivered>>

W3NextGuarded(r) ==
  IF r.queue = <<>> THEN Respond(r, 200) ELSE Goto(r, "w3_list")

W3SkipGuarded(r) == W3NextGuarded([r EXCEPT !.queue = Tail(@)])

\* lines 388-421 (charge.succeeded)
W3SessionsList(p, F) ==
  /\ inv[p].pc = "w3_sessions"
  /\ \E ok \in F :
       LET r == Called(inv[p], "checkout.sessions.list")
       IN  /\ Set(p, IF ~ok THEN HandlerCatch(r)
                     ELSE IF cfg.sessIds = <<>> THEN Respond(r, 200)
                     ELSE W3NextGuarded(
                            [r EXCEPT !.ids = cfg.sessIds, !.path = "guarded",
                                      !.queue = FallbackQueue(cfg.sessIds,
                                                              ChargeAmount(cfg))]))
           /\ Fail(ok)
  /\ UNCHANGED <<idVars, co, sessions, others, handler, cfg, chargeGroup, transfers, delivered>>

\* lines 423-432
W3TransfersList(p, F) ==
  /\ inv[p].pc = "w3_list"
  /\ \E ok \in F :
       LET r == Called(inv[p], "transfers.list")
       IN  /\ Set(p, IF ~ok THEN W3SkipGuarded(r)
                     ELSE IF TransferExists(TheCharge, Head(r.queue).acct)
                          THEN W3SkipGuarded(r)
                          ELSE Goto(r, "w3_create2"))
           /\ Fail(ok)
  /\ UNCHANGED <<idVars, co, sessions, others, handler, cfg, chargeGroup, transfers, delivered>>

\* lines 434-448
W3GuardedTransferCreate(p, F) ==
  /\ inv[p].pc = "w3_create2"
  /\ \E ok \in F :
       LET r == Called(inv[p], "transfers.create")
           d == Head(r.queue)
       IN  /\ Set(p, W3SkipGuarded(r))
           /\ transfers' = IF ok
                THEN Append(transfers,
                            Transfer(TheCharge, d.acct, d.amount, ACCOUNT_GROUP_ID))
                ELSE transfers
           /\ Fail(ok)
  /\ UNCHANGED <<idVars, co, sessions, others, handler, cfg, chargeGroup, delivered>>

W3Step(p, F) ==
  \/ W3PaymentIntentRetrieve(p, F)
  \/ W3ChargeRetrieve(p, F)
  \/ W3ChargeUpdate(p, F)
  \/ W3ProductRetrieve(p, F)
  \/ W3TransferCreate(p, F)
  \/ W3SessionsList(p, F)
  \/ W3TransfersList(p, F)
  \/ W3GuardedTransferCreate(p, F)

\* ------------------------------------------------------------------------
\* The prologue every webhook route shares
\* ------------------------------------------------------------------------
Dispatch(r) ==
  CASE handler = "part_008"   -> P8Dispatch(r)
    [] handler = "webhooks_1" -> W1Dispatch(r)
    [] handler = "webhooks_2" -> W2Dispatch(r)
    [] handler = "webhooks_3" -> W3Dispatch(r)

\* the catch of constructEvent logs and does not return
VerifyWithoutReturn(r) ==
  IF r.sig = "missing" THEN [r EXCEPT !.pc = "done", !.resp = 400]
  ELSE Dispatch([r EXCEPT !.calls = Append(@, "webhooks.constructEvent")])

\* header check, constructEvent, 400 on either failure (part_008 lines
\* 316-347; webhooks/route.ts lines 8-27, 248-269)
VerifyAndDispatch(r) ==
  IF r.sig = "missing" THEN Respond(r, 400)
  ELSE IF r.sig = "invalid" THEN Respond(Called(r, "webhooks.constructEvent"), 400)
  ELSE Dispatch(Called(r, "webhooks.constructEvent"))

\* a notification request arrives
POST(p, N) ==
  /\ inv[p].pc \in {"idle", "done"}
  /\ delivered < N
  /\ \E k \in Kinds, s \in Signatures,
        paid \in (IF handler = "webhooks_2" THEN BOOLEAN ELSE {TRUE}) :
       Set(p, VerifyAndDispatch([IdleInv EXCEPT !.kind = k, !.sig = s, !.paid = paid]))
  /\ delivered' = delivered + 1
  /\ UNCHANGED <<idVars, co, sessions, others, handler, cfg, chargeGroup, transfers, anyFail>>

P8Step(p, F) ==
  \/ P8CustomerRetrieve(p, F)
  \/ P8SessionUpdate(p, F)
  \/ P8PaymentIntentRetrieve(p, F)
  \/ P8ChargeRetrieve(p, F)
  \/ P8ChargeUpdate(p, F)
  \/ CTChargeRetrieve(p, F)
  \/ CTPaymentIntentRetrieve(p, F)
  \/ CTSessionsList(p, F)
  \/ CTTransfersList(p, F)
  \/ CTAccountRetrieve(p, F)
  \/ CTTransferCreate(p, F)

\* notifications handled one after another; any Gateway call may fail
HookNext ==
  \/ POST(1, MaxNotifs)
  \/ P8Step(1, BOOLEAN)
  \/ W1Step(1, BOOLEAN)
  \/ W2PaymentIntentRetrieve(1, BOOLEAN)
  \/ W3Step(1, BOOLEAN)

SpecHook == HookInit /\ [][HookNext]_vars

\* two invocations for the same charge, interleaved at the Gateway calls;
\* every call succeeds
HookConcNext == \E p \in Procs : POST(p, MaxConcNotifs) \/ P8Step(p, {TRUE})

HookConcInit == HookInit /\ handler = "part_008"

SpecHookConc == HookConcInit /\ [][HookConcNext]_vars

\* ------------------------------------------------------------------------
\* Invocations for another charge that pays a shared destination, running
\* beside the invocations for the charge.  Of an invocation for the other
\* charge only the steps that read or write the shared transfers are kept:
\* its lookup and its creation for the shared destination.  Its other calls
\* touch nothing the charge's invocations read.
\* ------------------------------------------------------------------------
\* invocations for the other charge that may sit between lookup and creation
MaxOther == 10
SharedDestination == "acct_A"
\* the transfer an invocation for the other charge creates
OtherTransfer == Transfer(OtherCharge, SharedDestination, 450, ACCOUNT_GROUP_ID)

\* lines 134-149 / 207-220 with chargeId = the other charge: an invocation
\* whose lookup shows no transfer of its charge goes on to create one (an
\* invocation whose lookup shows one continues and changes nothing)
OtherTransfersList ==
  /\ others < MaxOther
  /\ ~TransferExists(OtherCharge, SharedDestination)
  /\ others' = others + 1
  /\ UNCHANGED <<idVars, co, sessions, handler, cfg, chargeGroup, transfers, inv,
                 delivered, anyFail>>

\* lines 165-178 / 232-245 with source_transaction = the other charge
OtherTransferCreate ==
  /\ others > 0
  /\ others' = others - 1
  /\ transfers' = Append(transfers, OtherTransfer)
  /\ UNCHANGED <<idVars, co, sessions, handler, cfg, chargeGroup, inv, delivered, anyFail>>

\* the charge's notifications handled one after another, every call
\* succeeding, interleaved with the other charge's invocations
HookTwoNext ==
  \/ POST(1, MaxConcNotifs)
  \/ P8Step(1, {TRUE})
  \/ OtherTransfersList
  \/ OtherTransferCreate

\* charges that pay the shared destination: it is the one listed account,
\* or one of two on the charges with a customer or another transfer group
HookTwoInit ==
  /\ HookConcInit
  /\ transfers = << >>
  /\ \/ cfg \in PlainCharges /\ cfg.sessIds = <<SharedDestination>>
     \/ /\ cfg \in SpecialCharges
        /\ ~cfg.piTransfer /\ ~cfg.multiVendor /\ cfg.latestCharge /\ cfg.sessPI

SpecHookTwo == HookTwoInit /\ [][HookTwoNext]_vars

\* ------------------------------------------------------------------------
\* Session Builder: POST of src/app/api/checkout/route.ts (lines 22-180)
\* ------------------------------------------------------------------------
\* items in one cart
MaxItems == 2
\* checkout sessions created in one behaviour
MaxSessions == 2

\* const applicationFeePercent = 10
applicationFeePercent == 10

\* price.unit_amount of the Gateway's prices (0: a price without unit_amount)
unit_amount(priceId) ==
  CASE priceId = "price_1000" -> 1000
    [] priceId = "price_500"  -> 500
    [] priceId = "price_15"   -> 15
    [] priceId = "price_7"    -> 7
    [] OTHER                  -> 0

CartItem(id, priceId, quantity, acct) ==
  [ id |-> id, priceId |-> priceId, quantity |-> quantity,
    stripeConnectedAccountId |-> acct ]

ItemChoices ==
  { CartItem("p1", "price_1000", 2, "acct_A"),
    CartItem("p2", "price_500", 1, NoAccount),
    CartItem("p3", "price_15", 1, "acct_A"),
    CartItem("p4", "price_7", 3, "acct_B"),
    CartItem("p5", "price_none", 1, "acct_A") }

CartsUpTo(n) == UNION { [1..k -> ItemChoices] : k \in 0..n }

\* body.items: absent, or a list of cart items
ItemsValues ==
  {[defined |-> FALSE, list |-> << >>]}
    \cup {[defined |-> TRUE, list |-> c] : c \in CartsUpTo(MaxItems)}

\* the request: its method, body.items and whether body.userEmail is given
\* (a preflight carries no body)
Requests ==
  {[method |-> "OPTIONS", items |-> [defined |-> FALSE, list |-> << >>],
    userEmail |-> FALSE]}
    \cup {[method |-> "POST", items |-> it, userEmail |-> e] :
            it \in ItemsValues, e \in BOOLEAN}

\* error.message of a failed stripe.checkout.sessions.create
Causes == {"StripeAPIError", "StripeConnectionError"}
Outcomes == {"ok"} \cup Causes
\* a call whose rejection is caught and only logged
Settled == {"ok", "rejected"}

CoCalled(r, name, outcome) ==
  [r EXCEPT !.calls = Append(@, [name |-> name, outcome |-> outcome])]

CoRespond(r, status, body) == [r EXCEPT !.pc = "done", !.resp = status, !.body = body]

\* the catch of POST: 500 {error, details: error.message}
CheckoutCatch(r, message) ==
  CoRespond(r, 500, [NoBody EXCEPT !.error = "Failed to create checkout session",
                                   !.details = message])

\* Math.round(totalAmount * (applicationFeePercent / 100))
ApplicationFee(totalAmount) == (totalAmount * applicationFeePercent + 50) \div 100

TransferAmountGross(totalAmount) == totalAmount

\* const transferAmount = totalAmount - applicationFee
TransferAmount(totalAmount) == totalAmount - ApplicationFee(totalAmount)

RECURSIVE AddToGroup(_, _, _, _)
\* transferGroups[acct]: accumulate, or insert a new entry last
AddToGroup(tg, acct, amount, fee) ==
  IF tg = << >>
  THEN << [acct |-> acct, amount |-> amount, application_fee |-> fee] >>
  ELSE IF Head(tg).acct = acct
       THEN << [Head(tg) EXCEPT !.amount = @ + amount, !.application_fee = @ + fee] >>
            \o Tail(tg)
       ELSE << Head(tg) >> \o AddToGroup(Tail(tg), acct, amount, fee)

\* the body of the item loop once the price is retrieved
ProcessItem(r, item) ==
  LET withLine == [r EXCEPT !.lineItems =
                      Append(@, [price |-> item.priceId, quantity |-> item.quantity])]
      totalAmount == unit_amount(item.priceId) * item.quantity
  IN  IF unit_amount(item.priceId) = 0 THEN r
      ELSE IF item.stripeConnectedAccountId = NoAccount THEN withLine
      ELSE [withLine EXCEPT !.transferGroups =
              AddToGroup(@, item.stripeConnectedAccountId,
                         TransferAmount(totalAmount), ApplicationFee(totalAmount))]

\* the loop moves on: the next price lookup, else the customer handling,
\* else the creation of the session
NextItem(r) ==
  IF r.idx < Len(r.items.list) THEN [r EXCEPT !.idx = @ + 1, !.pc = "price"]
  ELSE IF r.userEmail THEN [r EXCEPT !.pc = "customer"]
  ELSE [r EXCEPT !.pc = "create"]

CartNeverEmpty(items) == FALSE

\* !items || !items.length
CartIsEmpty(items) == Len(items.list) = 0

\* POST up to its first Gateway call
CheckoutEntry(r) ==
  IF r.method = "OPTIONS" THEN CoRespond(r, 200, NoBody)
  ELSE IF ~r.items.defined
       THEN CheckoutCatch(r, "Cannot read properties of undefined (reading 'length')")
  ELSE IF CartIsEmpty(r.items)
       THEN CoRespond(r, 400, [NoBody EXCEPT !.error = "Cart is empty"])
  ELSE NextItem(r)

\* a checkout request arrives
CheckoutPOST ==
  /\ co.pc \in {"idle", "done"}
  /\ sessions < MaxSessions
  /\ \E q \in Requests :
       co' = CheckoutEntry([IdleCheckout EXCEPT !.method = q.method, !.items = q.items,
                                                !.userEmail = q.userEmail])
  /\ UNCHANGED <<sessions, hookVars, idVars>>

\* a rejected price lookup that would reach the catch of POST
ItemLookupAborts(r) == CheckoutCatch(r, "rejected")

\* lines 139-141: the catch inside the item loop logs; the loop goes on
ItemLookupFailed(r) == NextItem(r)

\* stripe.prices.retrieve(item.priceId) settles for the current item
PricesRetrieve ==
  /\ co.pc = "price"
  /\ \E o \in Settled :
       LET r == CoCalled(co, "prices.retrieve", o)
           item == co.items.list[co.idx]
       IN  co' = IF o = "ok" THEN NextItem(ProcessItem(r, item)) ELSE ItemLookupFailed(r)
  /\ UNCHANGED <<sessions, hookVars, idVars>>

LookupRethrown(r, o, found) ==
  IF o = "ok"
  THEN [r EXCEPT !.customer = IF found THEN "customer" ELSE "customer_email",
                 !.pc = "create"]
  ELSE CheckoutCatch(r, o)

\* findCustomerByEmail returns the first customer's id, or null when there is
\* none or the lookup failed; the caller then attaches customer or customer_email
CustomerHandling(r, o, found) ==
  [r EXCEPT !.customer = IF o = "ok" /\ found THEN "customer" ELSE "customer_email",
            !.pc = "create"]

\* findCustomerByEmail: stripe.customers.list({email, limit: 1}) settles
CustomersList ==
  /\ co.pc = "customer"
  /\ \E o \in Settled, found \in BOOLEAN :
       co' = CustomerHandling(CoCalled(co, "customers.list", o), o, found)
  /\ UNCHANGED <<sessions, hookVars, idVars>>

\* sessionParams as sent to stripe.checkout.sessions.create: the plan is
\* JSON.stringify(transferGroups) in metadata.transfer_groups, and
\* payment_intent_data carries a transfer_group and no metadata
SessionParams(r) ==
  [ line_items |-> r.lineItems,
    metadata |-> [transfer_groups |-> [present |-> TRUE, plan |-> r.transferGroups]],
    payment_intent_data |->
      [transfer_group |-> "order_userId_now", metadata |-> [transfer_groups |-> NoPlan]],
    customer |-> IF r.customer = "customer" THEN "existingCustomerId" ELSE "",
    customer_email |-> IF r.customer = "customer_email" THEN "userEmail" ELSE "" ]

SessionCreateSwallowed(r, cause) == CoRespond(r, 200, NoBody)

\* the rejection of stripe.checkout.sessions.create reaches the catch of POST
SessionCreateFailed(r, cause) == CheckoutCatch(r, cause)

\* stripe.checkout.sessions.create(sessionParams) settles
SessionsCreate ==
  /\ co.pc = "create"
  /\ \E o \in Outcomes :
       LET r == CoCalled([co EXCEPT !.sessionParams = SessionParams(co)],
                         "checkout.sessions.create", o)
       IN  IF o = "ok"
           THEN /\ co' = CoRespond(r, 200, [NoBody EXCEPT !.url = "session.url"])
                /\ sessions' = sessions + 1
           ELSE /\ co' = SessionCreateFailed(r, o)
                /\ UNCHANGED sessions
  /\ UNCHANGED <<hookVars, idVars>>

CheckoutNext ==
  \/ CheckoutPOST
  \/ PricesRetrieve
  \/ CustomersList
  \/ SessionsCreate

\* no notification is in flight while the checkout endpoint is exercised
CheckoutInit ==
  /\ handler = "part_008"
  /\ cfg = Charge(<< Item("p1", 1000, NoAccount) >>, << >>, << >>, FALSE, FALSE,
                  "default", TRUE, TRUE, "none")
  /\ chargeGroup = cfg.group
  /\ transfers = << >>
  /\ inv = [p \in Procs |-> IdleInv]
  /\ delivered = 0
  /\ others = 0
  /\ anyFail = FALSE
  /\ co = IdleCheckout
  /\ sessions = 0
  /\ customers = << >>
  /\ idr = IdleResolver
  /\ idc = [p \in Procs |-> IdleResolver]

SpecCheckout == CheckoutInit /\ [][CheckoutNext]_vars

\* ------------------------------------------------------------------------
\* From the built session to its settlement: the Gateway copies
\* sessionParams.metadata to the session and payment_intent_data (its
\* metadata and transfer_group) to the payment intent; once the buyer has
\* paid, the notifications reach the handler of webhooks/route.ts lines 8-111
\* ------------------------------------------------------------------------
\* metadata?.key of a Gateway object: the value stored under the key, if any
MetadataGet(metadata, key) ==
  IF key \in DOMAIN metadata THEN metadata[key] ELSE NoPlan

\* paymentIntent.metadata.transfer_data as line 53 finds it: the handler
\* expects a list; what the builder serialises is an object keyed by account
TransferDataOf(sp) ==
  IF MetadataGet(sp.payment_intent_data.metadata, "transfer_data").present
  THEN [shape |-> "object", list |-> << >>]
  ELSE NoTransferData

\* no payment yet
Unpaid == Charge(<< >>, << >>, << >>, FALSE, FALSE, "", FALSE, FALSE, "none")

\* the charge, session and payment intent of a paid session
PaidSession(sp) ==
  [ Charge([i \in DOMAIN sp.line_items |->
              Item(sp.line_items[i].price,
                   unit_amount(sp.line_items[i].price) * sp.line_items[i].quantity,
                   NoAccount)],
           << >>, << >>, FALSE, FALSE, sp.payment_intent_data.transfer_group,
           TRUE, TRUE, "none")
    EXCEPT !.transferData = TransferDataOf(sp) ]

\* the buyer pays the session the builder returned
PaymentSucceeds ==
  /\ cfg = Unpaid
  /\ co.pc = "done" /\ co.body.url # ""
  /\ cfg' = PaidSession(co.sessionParams)
  /\ chargeGroup' = cfg'.group
  /\ UNCHANGED <<idVars, co, sessions, others, handler, transfers, inv, delivered, anyFail>>

\* checkout requests until a session is paid, then its notifications, every
\* Gateway call of the handler succeeding
EndToEndNext ==
  \/ cfg = Unpaid /\ CheckoutNext
  \/ PaymentSucceeds
  \/ cfg # Unpaid /\ POST(1, MaxNotifs)
  \/ W1Step(1, {TRUE})

\* nothing paid yet, or a payment intent made elsewhere whose metadata
\* carries a transfer_data plan
EndToEndInit ==
  /\ handler = "webhooks_1"
  /\ cfg \in {Unpaid} \cup TransferDataCharges
  /\ chargeGroup = cfg.group
  /\ transfers = << >>
  /\ inv = [p \in Procs |-> IdleInv]
  /\ delivered = 0
  /\ others = 0
  /\ anyFail = FALSE
  /\ co = IdleCheckout
  /\ sessions = 0
  /\ customers = << >>
  /\ idr = IdleResolver
  /\ idc = [p \in Procs |-> IdleResolver]

SpecEndToEnd == EndToEndInit /\ [][EndToEndNext]_vars

\* ------------------------------------------------------------------------
\* Session Builder of part_003 (POST, lines 32-196): the session lists its
\* connected accounts in metadata.connected_account_ids, at both levels.
\* part_006 (lines 56-130) builds the same list from the items alone.
\* ------------------------------------------------------------------------
\* items.map((item) => item.stripeConnectedAccountId).filter((id) => !!id)
itemConnectedAccountIds(items) ==
  LET kept == SelectSeq(items, LAMBDA it : it.stripeConnectedAccountId # NoAccount)
  IN  [i \in DOMAIN kept |-> kept[i].stripeConnectedAccountId]

\* connectedAccountIds.length > 0 ? connectedAccountIds : itemConnectedAccountIds
finalConnectedAccountIds(provided, items) ==
  IF Len(provided) > 0 THEN provided ELSE itemConnectedAccountIds(items)

\* body.connectedAccountIds: left out (default []), or given
ProvidedIds == { << >>, <<"acct_A", "acct_B">> }

\* lines 96-99: the "id:account" pairs of the items that have an account
productConnectedAccounts(items) ==
  LET kept == SelectSeq(items, LAMBDA it : it.stripeConnectedAccountId # NoAccount)
  IN  [i \in DOMAIN kept |-> <<kept[i].id, kept[i].stripeConnectedAccountId>>]

\* body.accountGroupId: left out (default ACCOUNT_GROUP_ID, line 49), or given
AccountGroupIds == { ACCOUNT_GROUP_ID, "order_u1" }

\* lines 113-131 and 153-163; the metadata value is the list joined by ","
AccountSessionParams(items, provided, accountGroupId) ==
  LET ids == [present |-> TRUE, plan |-> finalConnectedAccountIds(provided, items)]
      pca == productConnectedAccounts(items)
  IN  [ line_items |-> [i \in DOMAIN items |->
                          [price |-> items[i].priceId, quantity |-> items[i].quantity]],
        metadata |-> [product_ids |-> [i \in DOMAIN items |-> items[i].id],
                      connected_account_ids |-> ids,
                      product_connected_accounts |-> pca],
        payment_intent_data |->
          [transfer_group |-> accountGroupId,
           metadata |-> [connected_account_ids |-> ids,
                         product_connected_accounts |-> pca]],
        customer |-> "", customer_email |-> "" ]

\* a checkout request arrives at part_003: up to its first Gateway call
AccountCheckoutPOST ==
  /\ co.pc \in {"idle", "done"}
  /\ sessions < MaxSessions
  /\ \E q \in Requests, provided \in ProvidedIds, accountGroupId \in AccountGroupIds :
       LET r == [IdleCheckout EXCEPT !.method = q.method, !.items = q.items,
                                     !.userEmail = q.userEmail]
       IN  co' = IF r.method = "OPTIONS" THEN CoRespond(r, 200, NoBody)
                 ELSE IF ~r.items.defined
                      THEN CheckoutCatch(r, "Cannot read properties of undefined (reading 'length')")
                 ELSE IF CartIsEmpty(r.items)
                      THEN CoRespond(r, 400, [NoBody EXCEPT !.error = "Cart is empty"])
                 ELSE [r EXCEPT !.sessionParams =
                                   AccountSessionParams(r.items.list, provided,
                                                        accountGroupId),
                                !.pc = IF r.userEmail THEN "a_customer" ELSE "a_create"]
  /\ UNCHANGED <<sessions, hookVars, idVars>>

\* lines 134-150: stripe.customers.list({email, limit: 1}) settles
AccountCustomersList ==
  /\ co.pc = "a_customer"
  /\ \E o \in Settled, found \in BOOLEAN :
       LET r == CoCalled(co, "customers.list", o)
           attached == o = "ok" /\ found
       IN  co' = [r EXCEPT !.pc = "a_create",
                           !.sessionParams.customer =
                              IF attached THEN "customers.data[0].id" ELSE "",
                           !.sessionParams.customer_email =
                              IF attached THEN "" ELSE "userEmail"]
  /\ UNCHANGED <<sessions, hookVars, idVars>>

\* lines 173-195: stripe.checkout.sessions.create(sessionParams) settles
AccountSessionsCreate ==
  /\ co.pc = "a_create"
  /\ \E o \in Outcomes :
       LET r == CoCalled(co, "checkout.sessions.create", o)
       IN  IF o = "ok"
           THEN /\ co' = CoRespond(r, 200, [NoBody EXCEPT !.url = "session.url"])
                /\ sessions' = sessions + 1
           ELSE /\ co' = CheckoutCatch(r, o)
                /\ UNCHANGED sessions
  /\ UNCHANGED <<hookVars, idVars>>

AccountCheckoutNext ==
  \/ AccountCheckoutPOST
  \/ AccountCustomersList
  \/ AccountSessionsCreate

SpecAccountCheckout == CheckoutInit /\ [][AccountCheckoutNext]_vars

\* ------------------------------------------------------------------------
\* From a session built by part_003 to its settlement by part_008: the
\* Gateway copies sessionParams.metadata to the session and
\* payment_intent_data to the payment intent; the line items of the session
\* are the products of the submitted prices.
\* ------------------------------------------------------------------------
\* the charge, session and payment intent of a paid part_003 session; the
\* product of a line item is the product the cart item named, and products
\* carry no stripeConnectedAccountId of their own; cust tells whether the
\* attached customer is its own primary
PaidAccountSession(sp, cust) ==
  Charge([i \in DOMAIN sp.line_items |->
            Item(sp.metadata.product_ids[i],
                 unit_amount(sp.line_items[i].price) * sp.line_items[i].quantity,
                 NoAccount)],
         sp.metadata.product_connected_accounts,
         sp.metadata.connected_account_ids.plan,
         FALSE, FALSE, sp.payment_intent_data.transfer_group, TRUE, TRUE, cust)

\* the buyer pays the session part_003 returned
AccountPaymentSucceeds ==
  /\ cfg = Unpaid
  /\ co.pc = "done" /\ co.body.url # ""
  /\ \E cust \in (IF co.sessionParams.customer = "" THEN {"none"}
                    ELSE {"primary", "duplicate"}) :
       cfg' = PaidAccountSession(co.sessionParams, cust)
  /\ chargeGroup' = cfg'.group
  /\ UNCHANGED <<idVars, co, sessions, others, handler, transfers, inv, delivered, anyFail>>

\* checkout requests until a session is paid, then its notifications; any
\* Gateway call of the handler may fail
AccountEndToEndNext ==
  \/ cfg = Unpaid /\ AccountCheckoutNext
  \/ AccountPaymentSucceeds
  \/ cfg # Unpaid /\ POST(1, MaxConcNotifs)
  \/ P8Step(1, BOOLEAN)

AccountEndToEndInit ==
  /\ handler = "part_008"
  /\ cfg = Unpaid
  /\ chargeGroup = cfg.group
  /\ transfers = << >>
  /\ inv = [p \in Procs |-> IdleInv]
  /\ delivered = 0
  /\ others = 0
  /\ anyFail = FALSE
  /\ co = IdleCheckout
  /\ sessions = 0
  /\ customers = << >>
  /\ idr = IdleResolver
  /\ idc = [p \in Procs |-> IdleResolver]

SpecAccountEndToEnd == AccountEndToEndInit /\ [][AccountEndToEndNext]_vars

\* ------------------------------------------------------------------------
\* Per-account Session Builder: the second POST of
\* src/app/api/checkout/route.ts (lines 202-399).  One createCheckoutSession
\* per group of items; the calls of a cart with several groups run side by
\* side under Promise.all, each await a point where another may run.
\* ------------------------------------------------------------------------
RECURSIVE itemsByAccount(_)
\* lines 242-257: the key "platform" first, then the accounts in order of
\* first appearance (Object.keys / Object.entries order)
itemsByAccount(items) ==
  IF items = << >> THEN << [accountId |-> "platform", items |-> << >>] >>
  ELSE LET groups == itemsByAccount(SubSeq(items, 1, Len(items) - 1))
           item == items[Len(items)]
           key == IF item.stripeConnectedAccountId = NoAccount THEN "platform"
                  ELSE item.stripeConnectedAccountId
       IN  IF \E k \in DOMAIN groups : groups[k].accountId = key
           THEN [k \in DOMAIN groups |->
                   IF groups[k].accountId = key
                   THEN [groups[k] EXCEPT !.items = Append(@, item)] ELSE groups[k]]
           ELSE Append(groups, [accountId |-> key, items |-> << item >>])

\* createCheckoutSession(items, userId, stripeConnectedAccountId) up to its
\* first await (lines 333-368, 391-392): the price lookup of the first item
\* when an account is given, else stripe.checkout.sessions.create
createCheckoutSession(items, stripeConnectedAccountId) ==
  [ stripeConnectedAccountId |-> stripeConnectedAccountId, items |-> items,
    line_items |-> [i \in DOMAIN items |->
                      [price |-> items[i].priceId, quantity |-> items[i].quantity]],
    idx |-> 1, totalAmount |-> 0, application_fee_amount |-> 0, outcome |-> "",
    pc |-> IF stripeConnectedAccountId # NoAccount /\ items # << >>
           THEN "price" ELSE "create" ]

\* lines 262-303: the calls of createCheckoutSession that POST starts
StartedSessions(items) ==
  LET groups == itemsByAccount(items)
  IN  IF Len(groups) = 1 \/ (Len(groups) = 2 /\ groups[1].items = << >>)
      THEN << createCheckoutSession(
                items, IF Len(groups) = 2 THEN groups[2].accountId ELSE NoAccount) >>
      ELSE [k \in DOMAIN groups |->
              createCheckoutSession(
                groups[k].items,
                IF groups[k].accountId = "platform" THEN NoAccount
                ELSE groups[k].accountId)]

\* what POST does when a session creation has settled: the first rejection
\* reaches the catch (lines 318-329); once every call has resolved the
\* answer is 200 with the URL of sessions[0] (lines 278, 309)
PerAccountRespond(r) ==
  LET rejected == {k \in DOMAIN r.chains : r.chains[k].outcome \notin {"", "ok"}}
  IN  IF r.pc # "p_wait" THEN r
      ELSE IF rejected # {}
           THEN CheckoutCatch(r, r.chains[CHOOSE k \in rejected : TRUE].outcome)
      ELSE IF \A k \in DOMAIN r.chains : r.chains[k].outcome = "ok"
           THEN CoRespond(r, 200, [NoBody EXCEPT !.url = "sessions[0].url"])
      ELSE r

\* a checkout request arrives: lines 202-303 up to the first awaits (a new
\* request is taken once the calls of the one before have settled)
PerAccountPOST ==
  /\ co.pc \in {"idle", "done"}
  /\ \A k \in DOMAIN co.chains : co.chains[k].pc = "done"
  /\ sessions < MaxSessions
  /\ \E q \in {x \in Requests : ~x.userEmail} :
       LET r == [IdleCheckout EXCEPT !.method = q.method, !.items = q.items]
       IN  co' = IF r.method = "OPTIONS" THEN CoRespond(r, 200, NoBody)
                 ELSE IF ~r.items.defined
                      THEN CheckoutCatch(r, "Cannot read properties of undefined (reading 'length')")
                 ELSE IF CartIsEmpty(r.items)
                      THEN CoRespond(r, 400, [NoBody EXCEPT !.error = "Cart is empty"])
                 ELSE [r EXCEPT !.pc = "p_wait", !.chains = StartedSessions(r.items.list)]
  /\ UNCHANGED <<sessions, hookVars, idVars>>

\* lines 366-378: stripe.prices.retrieve of one call settles; a rejection is
\* logged; after the last item the fee is computed and the session requested
PerAccountPricesRetrieve ==
  /\ \E k \in DOMAIN co.chains, o \in Settled :
       LET c == co.chains[k]
           item == c.items[c.idx]
           added == IF o = "ok" THEN unit_amount(item.priceId) * item.quantity ELSE 0
           next == [c EXCEPT !.totalAmount = @ + added, !.idx = @ + 1]
       IN  /\ c.pc = "price"
           /\ co' = [CoCalled(co, "prices.retrieve", o) EXCEPT !.chains[k] =
                       IF c.idx < Len(c.items) THEN next
                       ELSE [next EXCEPT !.pc = "create",
                                         !.application_fee_amount =
                                            ApplicationFee(next.totalAmount)]]
  /\ UNCHANGED <<sessions, hookVars, idVars>>

\* lines 391-398: stripe.checkout.sessions.create of one call settles
PerAccountSessionsCreate ==
  /\ \E k \in DOMAIN co.chains, o \in Outcomes :
       /\ co.chains[k].pc = "create"
       /\ co' = PerAccountRespond(
                  [CoCalled(co, "checkout.sessions.create", o)
                     EXCEPT !.chains[k].pc = "done", !.chains[k].outcome = o])
       /\ sessions' = IF o = "ok" THEN sessions + 1 ELSE sessions
  /\ UNCHANGED <<hookVars, idVars>>

PerAccountCheckoutNext ==
  \/ PerAccountPOST
  \/ PerAccountPricesRetrieve
  \/ PerAccountSessionsCreate

SpecPerAccountCheckout == CheckoutInit /\ [][PerAccountCheckoutNext]_vars

\* ------------------------------------------------------------------------
\* Customer Identity Resolver: src/unnamed/part_009
\* ------------------------------------------------------------------------
\* customers in the Gateway before the first call
MaxCustomers == 2
\* customers the resolver may create in one behaviour
MaxCreated == 2

\* limit: 100 of stripe.customers.list
CustomersListLimit == 100

CustomerId(i) == "cus_" \o ToString(i)

\* String.prototype.toLowerCase on the emails of the model
toLowerCase(email) == IF email = "Bob@X.com" THEN "bob@x.com" ELSE email

\* the emails a caller passes
EmailArgs == {"", "bob@x.com", "Bob@X.com"}

Profile(email, sources, dup, primary, deleted, tie) ==
  [ email |-> email, sources |-> sources, is_duplicate |-> dup,
    primary_customer_id |-> primary, deleted |-> deleted, tie |-> tie ]

\* what a customer of the Gateway may look like: its email, whether it has a
\* payment source, its metadata.is_duplicate / metadata.primary_customer_id,
\* whether it was deleted, whether it was created in the same second as the
\* customer before it
Profiles ==
  { Profile("bob@x.com", 0, FALSE, "", FALSE, FALSE),
    Profile("bob@x.com", 0, FALSE, "", FALSE, TRUE),
    Profile("bob@x.com", 1, FALSE, "", FALSE, FALSE),
    Profile("bob@x.com", 0, TRUE, CustomerId(2), FALSE, FALSE),
    Profile("bob@x.com", 1, TRUE, CustomerId(3), FALSE, FALSE),
    Profile("bob@x.com", 0, TRUE, "", FALSE, FALSE),
    Profile("amy@x.com", 1, FALSE, "", FALSE, FALSE),
    Profile("Bob@X.com", 1, FALSE, "", FALSE, FALSE),
    Profile("bob@x.com", 1, FALSE, "", TRUE, FALSE) }

RECURSIVE Created(_, _)
\* customer.created of the i-th customer of a store built from profiles
Created(profiles, i) ==
  IF i = 1 THEN 1
  ELSE IF profiles[i].tie THEN Created(profiles, i - 1)
       ELSE Created(profiles, i - 1) + 1

Customer(id, created, pr) ==
  [ id |-> id, email |-> pr.email, created |-> created, sources |-> pr.sources,
    is_duplicate |-> pr.is_duplicate, primary_customer_id |-> pr.primary_customer_id,
    deleted |-> pr.deleted, created_by |-> "" ]

Stores ==
  { [i \in DOMAIN ps |-> Customer(CustomerId(i), Created(ps, i), ps[i])] :
      ps \in UNION { [1..k -> Profiles] : k \in 0..MaxCustomers } }

\* stripe.customers.list({email, limit: 100}): most recent first
customers_list(store, email) ==
  Take(Reverse(SelectSeq(store, LAMBDA c : c.email = email /\ ~c.deleted)),
       CustomersListLimit)

HasAnything(c) == TRUE

\* (customer.sources?.data?.length || 0) > 0
HasSources(c) == c.sources > 0

RECURSIVE InsertByCreated(_, _)
InsertByCreated(s, c) ==
  IF s = << >> THEN << c >>
  ELSE IF Head(s).created >= c.created
       THEN << Head(s) >> \o InsertByCreated(Tail(s), c)
       ELSE << c >> \o s

RECURSIVE sortedCustomers(_)
\* data.sort((a, b) => b.created - a.created): newest first, stable
sortedCustomers(s) ==
  IF s = << >> THEN << >>
  ELSE InsertByCreated(sortedCustomers(SubSeq(s, 1, Len(s) - 1)), s[Len(s)])

NotFound == [customerId |-> "null", exists |-> FALSE]

\* findStripeCustomerByEmail once the list has arrived
BestCustomer(data) ==
  IF Len(data) = 0 THEN NotFound
  ELSE IF Len(data) > 1
       THEN LET customersWithPaymentMethods == SelectSeq(data, HasSources)
            IN  IF Len(customersWithPaymentMethods) > 0
                THEN [customerId |-> sortedCustomers(customersWithPaymentMethods)[1].id,
                      exists |-> TRUE]
                ELSE [customerId |-> sortedCustomers(data)[1].id, exists |-> TRUE]
       ELSE [customerId |-> data[1].id, exists |-> TRUE]

\* findCustomerByEmail of the Session Builder (checkout/route.ts lines 85-101)
\* once stripe.customers.list({email, limit: 1}) has arrived: customers.data[0]
findCustomerByEmail(store, email) ==
  LET data == Take(Reverse(SelectSeq(store, LAMBDA c : c.email = email /\ ~c.deleted)), 1)
  IN  IF Len(data) > 0 THEN [customerId |-> data[1].id, exists |-> TRUE] ELSE NotFound

NewCustomerAsGiven(store, email) ==
  [ id |-> CustomerId(Len(store) + 1), email |-> email,
    created |-> IF store = << >> THEN 1 ELSE store[Len(store)].created + 1,
    sources |-> 0, is_duplicate |-> FALSE, primary_customer_id |-> "",
    deleted |-> FALSE, created_by |-> "customer_management_system" ]

\* stripe.customers.create({email: email.toLowerCase(), metadata: {is_primary}})
NewCustomer(store, email) ==
  [ id |-> CustomerId(Len(store) + 1), email |-> toLowerCase(email),
    created |-> IF store = << >> THEN 1 ELSE store[Len(store)].created + 1,
    sources |-> 0, is_duplicate |-> FALSE, primary_customer_id |-> "",
    deleted |-> FALSE, created_by |-> "customer_management_system" ]

IdCalled(r, name, ok) ==
  [r EXCEPT !.cur.calls = Append(@, [name |-> name, ok |-> ok])]

IdReturn(r, result) == [r EXCEPT !.pc = "done", !.cur.result = result]

IdThrow(r, message) ==
  [r EXCEPT !.pc = "done", !.cur.result = message, !.cur.thrown = TRUE]

\* the customers the resolver has created so far
CreatedCount ==
  Len(SelectSeq(customers, LAMBDA c : c.created_by = "customer_management_system"))

\* the call before is remembered when the new call repeats it or is applied
\* to its result
Remembered(op, arg) ==
  IF /\ idr.pc = "done" /\ idr.cur.op = op /\ ~idr.cur.thrown
     /\ arg = (IF op = "getPrimaryCustomerId" THEN idr.cur.result ELSE idr.cur.arg)
  THEN idr.cur
  ELSE NoCall

\* a call of one of the three exported functions, or of the Session Builder's
\* own lookup, starts and runs up to its first Gateway call
IdentityCall ==
  /\ idr.pc \in {"idle", "done"}
  /\ \/ \E op \in {"findStripeCustomerByEmail", "ensureValidStripeCustomer",
                     "findCustomerByEmail"},
           email \in EmailArgs :
          LET r == [idr EXCEPT !.prev = Remembered(op, email),
                               !.cur = [NoCall EXCEPT !.op = op, !.arg = email]]
          IN  /\ (op = "ensureValidStripeCustomer") => (CreatedCount < MaxCreated)
              /\ idr' = IF email # "" THEN [r EXCEPT !.pc = "list"]
                        ELSE IF op # "ensureValidStripeCustomer"
                             THEN IdReturn(r, NotFound.customerId)
                             ELSE [r EXCEPT !.pc = "create"]
     \/ \E x \in {CustomerId(i) : i \in 1..(MaxCustomers + 1)} :
          idr' = [idr EXCEPT !.prev = Remembered("getPrimaryCustomerId", x),
                             !.pc = "retrieve",
                             !.cur = [NoCall EXCEPT !.op = "getPrimaryCustomerId",
                                                    !.arg = x]]
  /\ UNCHANGED <<customers, idc, hookVars, co, sessions>>

\* findStripeCustomerByEmail: stripe.customers.list settles
IdCustomersList ==
  /\ idr.pc = "list"
  /\ \E ok \in BOOLEAN :
       LET r == IdCalled(idr, "customers.list", ok)
           found == IF ~ok THEN NotFound
                    ELSE IF idr.cur.op = "findCustomerByEmail"
                         THEN findCustomerByEmail(customers, idr.cur.arg)
                    ELSE BestCustomer(customers_list(customers, toLowerCase(idr.cur.arg)))
       IN  idr' = IF idr.cur.op # "ensureValidStripeCustomer" \/ found.exists
                  THEN IdReturn(r, found.customerId)
                  ELSE [r EXCEPT !.pc = "create"]
  /\ UNCHANGED <<customers, idc, hookVars, co, sessions>>

\* ensureValidStripeCustomer: stripe.customers.create settles
IdCustomersCreate ==
  /\ idr.pc = "create"
  /\ \E ok \in BOOLEAN :
       LET r == IdCalled(idr, "customers.create", ok)
           customer == NewCustomer(customers, idr.cur.arg)
       IN  IF ok
           THEN /\ customers' = Append(customers, customer)
                /\ idr' = IdReturn(r, customer.id)
           ELSE /\ idr' = IdThrow(r, "Failed to create Stripe customer")
                /\ UNCHANGED customers
  /\ UNCHANGED <<idc, hookVars, co, sessions>>

\* getPrimaryCustomerId once the customer has arrived
PrimaryOf(customer, customerId) ==
  IF ~customer.deleted /\ customer.is_duplicate /\ customer.primary_customer_id # ""
  THEN customer.primary_customer_id
  ELSE customerId

\* getPrimaryCustomerId: stripe.customers.retrieve settles (it rejects for an
\* id the Gateway does not hold)
IdCustomersRetrieve ==
  /\ idr.pc = "retrieve"
  /\ \E ok \in BOOLEAN :
       LET held == {i \in DOMAIN customers : customers[i].id = idr.cur.arg}
           r == IdCalled(idr, "customers.retrieve", ok /\ held # {})
       IN  idr' = IF ok /\ held # {}
                  THEN IdReturn(r, PrimaryOf(customers[CHOOSE i \in held : TRUE], idr.cur.arg))
                  ELSE IdReturn(r, idr.cur.arg)
  /\ UNCHANGED <<customers, idc, hookVars, co, sessions>>

IdentityNext ==
  \/ IdentityCall
  \/ IdCustomersList
  \/ IdCustomersCreate
  \/ IdCustomersRetrieve

\* nothing else runs while the resolver is exercised
IdentityInit ==
  /\ handler = "part_008"
  /\ cfg = Charge(<< Item("p1", 1000, NoAccount) >>, << >>, << >>, FALSE, FALSE,
                  "default", TRUE, TRUE, "none")
  /\ chargeGroup = cfg.group
  /\ transfers = << >>
  /\ inv = [p \in Procs |-> IdleInv]
  /\ delivered = 0
  /\ others = 0
  /\ anyFail = FALSE
  /\ co = IdleCheckout
  /\ sessions = 0
  /\ customers \in Stores
  /\ idr = IdleResolver
  /\ idc = [p \in Procs |-> IdleResolver]

SpecIdentity == IdentityInit /\ [][IdentityNext]_vars

\* ------------------------------------------------------------------------
\* Two callers of ensureValidStripeCustomer (part_009 lines 84-108) for one
\* email, each await a point where the other may run.  F is the set of
\* outcomes a Gateway call may have (TRUE = success).
\* ------------------------------------------------------------------------
\* the spellings of the one email the two callers pass
SameEmailArgs == {e \in EmailArgs : toLowerCase(e) = "bob@x.com"}

\* caller p calls ensureValidStripeCustomer(email): up to the first await
EnsureCall(p) ==
  /\ idc[p].pc = "idle"
  /\ \E email \in SameEmailArgs :
       idc' = [idc EXCEPT ![p] =
                 [@ EXCEPT !.pc = "list",
                           !.cur = [NoCall EXCEPT !.op = "ensureValidStripeCustomer",
                                                  !.arg = email]]]
  /\ UNCHANGED <<customers, idr, hookVars, co, sessions>>

\* lines 21-77 and 86-90: caller p's stripe.customers.list settles
EnsureCustomersList(p, F) ==
  /\ idc[p].pc = "list"
  /\ \E ok \in F :
       LET r == IdCalled(idc[p], "customers.list", ok)
           found == IF ~ok THEN NotFound
                    ELSE BestCustomer(customers_list(customers, toLowerCase(r.cur.arg)))
       IN  idc' = [idc EXCEPT ![p] = IF found.exists THEN IdReturn(r, found.customerId)
                                     ELSE [r EXCEPT !.pc = "create"]]
  /\ UNCHANGED <<customers, idr, hookVars, co, sessions>>

\* lines 93-107: caller p's stripe.customers.create settles
EnsureCustomersCreate(p, F) ==
  /\ idc[p].pc = "create"
  /\ \E ok \in F :
       LET r == IdCalled(idc[p], "customers.create", ok)
           customer == NewCustomer(customers, r.cur.arg)
       IN  IF ok
           THEN /\ customers' = Append(customers, customer)
                /\ idc' = [idc EXCEPT ![p] = IdReturn(r, customer.id)]
           ELSE /\ idc' = [idc EXCEPT ![p] = IdThrow(r, "Failed to create Stripe customer")]
                /\ UNCHANGED customers
  /\ UNCHANGED <<idr, hookVars, co, sessions>>

\* the two calls interleaved at their awaits, every Gateway call succeeding
IdentityConcNext ==
  \E p \in Procs :
     EnsureCall(p) \/ EnsureCustomersList(p, {TRUE}) \/ EnsureCustomersCreate(p, {TRUE})

\* a store that holds no identity for the email
IdentityConcInit ==
  /\ IdentityInit
  /\ customers_list(customers, "bob@x.com") = << >>

SpecIdentityConc == IdentityConcInit /\ [][IdentityConcNext]_vars

\* ------------------------------------------------------------------------
\* Properties of the part_008 handler
\* ------------------------------------------------------------------------
CountTransfers(c, d) ==
  Cardinality({i \in DOMAIN transfers : transfers[i].src = c /\ transfers[i].dest = d})

\* the destinations of the charge's plan: the listed accounts that own a line
\* item of the session, or every listed account when no line item is owned
PlanDestinations(ids) ==
  LET owners == {a \in Range(ids) : \E i \in DOMAIN cfg.items :
                    ConnectedAccountOf(cfg.items[i], cfg.pca) = a}
  IN  IF owners # {} THEN owners ELSE Range(ids)

Returned(p) == inv[p].pc = "done"

MadeCall(p, name) == \E i \in DOMAIN inv[p].calls : inv[p].calls[i] = name

\* C1: in the part_008 handler, with notifications for the charge handled
\* one after another, in any order and repetition of the three kinds, and
\* every Gateway call succeeding, no destination ever has two transfers
\* sourced from the charge, and when an invocation that reached the transfer
\* loop returns, every destination of the plan has exactly one.
C1_Idempotent ==
  (handler = "part_008" /\ ~anyFail) =>
     /\ \A d \in Accounts : CountTransfers(TheCharge, d) <= 1
     /\ (Returned(1) /\ inv[1].path # "") =>
          \A d \in PlanDestinations(SettlementIds(inv[1].kind)) :
             CountTransfers(TheCharge, d) = 1

\* a redelivery that reached the loop, found both transfers and created none
C1_Witness ==
  /\ handler = "part_008" /\ ~anyFail /\ Returned(1) /\ inv[1].path # ""
  /\ delivered >= 2
  /\ MadeCall(1, "transfers.list") /\ ~MadeCall(1, "transfers.create")
  /\ \A d \in Accounts : CountTransfers(TheCharge, d) = 1

\* C2: two invocations for the same charge interleaved at their Gateway
\* calls never leave two transfers with the same source charge and the
\* same destination.
C2_NoDuplicateUnderInterleaving ==
  \A d \in Accounts : CountTransfers(TheCharge, d) <= 1

C2_Witness ==
  /\ inv[1].pc = "t_create" /\ inv[2].pc = "t_create"
  /\ Head(inv[1].queue).acct = Head(inv[2].queue).acct

\* C3: a request whose signature header is missing or fails verification is
\* answered 400 having made no Gateway call but the verification itself
\* (none at all when the header is missing), and in every invocation the
\* verification is the first call.
C3_InvalidSignatureNoCalls ==
  \A p \in Procs :
     /\ (inv[p].sig = "missing") => (Returned(p) /\ inv[p].resp = 400 /\ inv[p].calls = <<>>)
     /\ (inv[p].sig = "invalid") =>
          (Returned(p) /\ inv[p].resp = 400
             /\ inv[p].calls = <<"webhooks.constructEvent">>)
     /\ (inv[p].calls # <<>>) => (inv[p].calls[1] = "webhooks.constructEvent")

\* an invalid signature arrives for a charge that earlier notifications settled
C3_Witness ==
  /\ inv[1].sig = "invalid" /\ inv[1].resp = 400 /\ delivered >= 2
  /\ \E d \in Accounts : CountTransfers(TheCharge, d) = 1

\* C4: in the part_008 handler every notification with a valid signature is
\* answered 200, whatever Gateway calls fail while it is handled.
C4_AlwaysAcknowledged ==
  handler = "part_008" =>
     \A p \in Procs : (Returned(p) /\ inv[p].sig = "valid") => inv[p].resp = 200

\* a first notification during which a call failed and a transfer was tried
C4_Witness ==
  /\ handler = "part_008" /\ delivered = 1 /\ anyFail /\ Returned(1)
  /\ inv[1].resp = 200 /\ MadeCall(1, "transfers.create")

\* ------------------------------------------------------------------------
\* Money
\* ------------------------------------------------------------------------
RECURSIVE SumTransfers(_, _)
SumTransfers(ts, c) ==
  IF ts = <<>> THEN 0
  ELSE (IF Head(ts).src = c THEN Head(ts).amount ELSE 0) + SumTransfers(Tail(ts), c)

RECURSIVE SumFees(_)
SumFees(aa) == IF aa = <<>> THEN 0 ELSE FloorTenth(Head(aa).amount) + SumFees(Tail(aa))

\* the platform fee the deployed route retains for the charge
PlatformFee ==
  IF handler = "part_008" /\ SettlementPath(cfg, cfg.sessIds) = "items"
  THEN SumFees(AccountAmounts(MatchedLineItems(cfg, cfg.sessIds)))
  ELSE FallbackPlatformFee(ChargeAmount(cfg))

\* C5: in every reachable state the transfers sourced from the charge plus the
\* 10% platform fee are at most the charge's captured amount.
C5_TransfersPlusFeeWithinCharge ==
  handler \in {"part_008", "webhooks_3"} =>
     SumTransfers(transfers, TheCharge) + PlatformFee <= ChargeAmount(cfg)

\* the items of the charge that belong to no connected account
IsPlatformItem(it) == ConnectedAccountOf(it, cfg.pca) = NoAccount

RECURSIVE VendorTotal(_)
VendorTotal(items) ==
  IF items = <<>> THEN 0
  ELSE (IF IsPlatformItem(Head(items)) THEN 0 ELSE Head(items).amount)
       + VendorTotal(Tail(items))

\* every listed destination owns a line item, and some item is a platform item
VendorsAndPlatformItems ==
  /\ cfg.sessIds # <<>>
  /\ \A a \in Range(cfg.sessIds) :
        \E i \in DOMAIN cfg.items : ConnectedAccountOf(cfg.items[i], cfg.pca) = a
  /\ \E i \in DOMAIN cfg.items : IsPlatformItem(cfg.items[i])

\* what the deployed route transfers to d for the charge without its
\* platform items
AmountWithoutPlatformItems(d) ==
  IF handler = "part_008"
  THEN LET aa == AccountAmounts(MatchedLineItems(cfg, cfg.sessIds))
           i  == CHOOSE j \in DOMAIN aa : aa[j].acct = d
       IN  ItemPathTransferAmount(aa[i].amount)
  ELSE AmountPerVendor(VendorTotal(cfg.items), Len(cfg.sessIds))

\* C7 (Reconciler half): the amount of every transfer issued for the charge is
\* the amount the same route issues for the charge without its platform
\* items: a platform item changes no transfer amount.
C7_PlatformItemsDoNotContribute ==
  (handler \in {"part_008", "webhooks_3"} /\ VendorsAndPlatformItems) =>
     \A i \in DOMAIN transfers :
        transfers[i].src = TheCharge =>
           transfers[i].amount = AmountWithoutPlatformItems(transfers[i].dest)

\* ------------------------------------------------------------------------
\* Properties of the Session Builder
\* ------------------------------------------------------------------------
RECURSIVE PlanAmounts(_)
PlanAmounts(tg) == IF tg = << >> THEN 0 ELSE Head(tg).amount + PlanAmounts(Tail(tg))

RECURSIVE PlanFees(_)
PlanFees(tg) == IF tg = << >> THEN 0 ELSE Head(tg).application_fee + PlanFees(Tail(tg))

RECURSIVE LineItemsTotal(_)
LineItemsTotal(li) ==
  IF li = << >> THEN 0
  ELSE unit_amount(Head(li).price) * Head(li).quantity + LineItemsTotal(Tail(li))

CartTotal(items) ==
  LineItemsTotal([i \in DOMAIN items |->
                    [price |-> items[i].priceId, quantity |-> items[i].quantity]])

\* the sum of unitPrice x quantity over all items of destination d
Subtotal(items, d) ==
  CartTotal(SelectSeq(items, LAMBDA it : it.stripeConnectedAccountId = d))

EveryItemHasDestination ==
  \A i \in DOMAIN co.items.list : co.items.list[i].stripeConnectedAccountId # NoAccount

\* the item loop of the request has run to its end
PlanBuilt == co.pc \in {"customer", "create"} \/ (co.pc = "done" /\ co.calls # << >>)

\* every price of the cart was retrieved and has a positive unit_amount
AllPriced ==
  /\ \A i \in DOMAIN co.calls : co.calls[i].outcome = "ok"
  /\ \A i \in DOMAIN co.items.list : unit_amount(co.items.list[i].priceId) > 0

CreateCalls == {i \in DOMAIN co.calls : co.calls[i].name = "checkout.sessions.create"}

\* C6: the plan of createMultiVendorCheckoutSession never accounts for more
\* than the line items: the destinations' amounts plus their application fees
\* are at most the total of unit price x quantity over the line items of the
\* session (itself at most the total of the cart), and equal to it when every
\* item has a destination; with every price retrieved they equal the cart total.
C6_PlanWithinLineItems ==
  LET plan == PlanAmounts(co.transferGroups) + PlanFees(co.transferGroups)
  IN  /\ plan <= LineItemsTotal(co.lineItems)
      /\ LineItemsTotal(co.lineItems) <= CartTotal(co.items.list)
      /\ EveryItemHasDestination => plan = LineItemsTotal(co.lineItems)
      /\ (PlanBuilt /\ EveryItemHasDestination /\ AllPriced) =>
            plan = CartTotal(co.items.list)

\* a session created for a cart of two vendors, fully accounted for
C6_Witness ==
  /\ co.pc = "done" /\ co.resp = 200 /\ AllPriced /\ EveryItemHasDestination
  /\ Len(co.transferGroups) = 2
  /\ PlanAmounts(co.transferGroups) + PlanFees(co.transferGroups)
        = CartTotal(co.items.list)
  /\ CartTotal(co.items.list) > 0

\* C8: for every destination d of the plan, application_fee is
\* round-half-up(subtotal_d x 10%) and amount is subtotal_d - application_fee,
\* subtotal_d being the sum of unit price x quantity over all items of d: the
\* fee is rounded once per destination partition.
C8_FeeRoundedOncePerPartition ==
  (PlanBuilt /\ AllPriced) =>
     \A k \in DOMAIN co.transferGroups :
        LET e == co.transferGroups[k]
            subtotal == Subtotal(co.items.list, e.acct)
        IN  /\ e.application_fee = RoundTenth(subtotal)
            /\ e.amount = subtotal - RoundTenth(subtotal)

\* C9: a POST whose items list is empty is answered 400 {error: "Cart is
\* empty"} and makes no Gateway call: no price lookup, no customer lookup, no
\* session creation.
C9_EmptyCartRejected ==
  (co.method = "POST" /\ co.items.defined /\ Len(co.items.list) = 0) =>
     /\ co.pc = "done" /\ co.resp = 400
     /\ co.body = [NoBody EXCEPT !.error = "Cart is empty"]
     /\ co.calls = << >>

\* an empty cart submitted after an earlier request created a session
C9_Witness ==
  /\ co.method = "POST" /\ co.items.defined /\ Len(co.items.list) = 0
  /\ co.resp = 400 /\ sessions = 1

\* C10: when stripe.checkout.sessions.create fails, the request is answered
\* 500 with {error, details} where details is the message of the failure, and
\* the creation was attempted exactly once; no request attempts it twice.
C10_SessionCreationFailureSurfaced ==
  /\ Cardinality(CreateCalls) <= 1
  /\ \A i \in CreateCalls :
        co.calls[i].outcome # "ok" =>
           /\ co.pc = "done" /\ co.resp = 500
           /\ co.body = [NoBody EXCEPT !.error = "Failed to create checkout session",
                                       !.details = co.calls[i].outcome]

\* the creation failed after the plan was built from two retrieved prices
C10_Witness ==
  /\ co.pc = "done" /\ co.resp = 500 /\ Len(co.lineItems) = 2
  /\ co.transferGroups # << >>
  /\ \E i \in CreateCalls : co.calls[i].outcome = "StripeConnectionError"

\* ------------------------------------------------------------------------
\* Properties of the Customer Identity Resolver
\* ------------------------------------------------------------------------
AllOk(call) == \A i \in DOMAIN call.calls : call.calls[i].ok

Finished(op) == idr.pc = "done" /\ idr.cur.op = op

\* the identities the Gateway returns for the email of the current call
Returned11 == customers_list(customers, toLowerCase(idr.cur.arg))

\* c is a maximum of data under (has a payment source desc, created desc)
IsBest(c, data) ==
  \A i \in DOMAIN data :
     /\ (data[i].sources > 0) => (c.sources > 0)
     /\ ((data[i].sources > 0) <=> (c.sources > 0)) => data[i].created <= c.created

\* C11: when the Gateway returns two or more identities for the email,
\* findStripeCustomerByEmail returns one of them that is a maximum under the
\* order (has a payment source desc, created desc).
C11_BestIdentityReturned ==
  ( /\ Finished("findStripeCustomerByEmail")
    /\ idr.cur.calls # << >> /\ AllOk(idr.cur) /\ Len(Returned11) >= 2 ) =>
     \E i \in DOMAIN Returned11 :
        /\ Returned11[i].id = idr.cur.result
        /\ IsBest(Returned11[i], Returned11)

\* an older identity with a payment source wins over a newer one without
C11_Witness ==
  /\ Finished("findStripeCustomerByEmail") /\ AllOk(idr.cur) /\ Len(Returned11) = 2
  /\ idr.cur.result = Returned11[2].id
  /\ Returned11[2].created < Returned11[1].created
  /\ Returned11[2].sources > 0 /\ Returned11[1].sources = 0

\* the current call repeats the call before it
Repeated(op) ==
  /\ Finished(op) /\ idr.prev.op = op /\ idr.cur.arg = idr.prev.arg
  /\ AllOk(idr.cur) /\ AllOk(idr.prev)

\* C12: two consecutive calls of ensureValidStripeCustomer with the same
\* (non-empty) email, every Gateway call succeeding, return the same identity
\* id, whatever the identity store held before the first call, and the second
\* call creates nothing.
C12_SameIdentityTwice ==
  (Repeated("ensureValidStripeCustomer") /\ idr.cur.arg # "") =>
     /\ idr.cur.result = idr.prev.result
     /\ \A i \in DOMAIN idr.cur.calls : idr.cur.calls[i].name # "customers.create"

\* the store held no identity for the email: the first call created one and
\* the second call found it
C12_Witness ==
  /\ Repeated("ensureValidStripeCustomer") /\ idr.cur.arg = "Bob@X.com"
  /\ \E i \in DOMAIN idr.prev.calls : idr.prev.calls[i].name = "customers.create"
  /\ idr.cur.result = idr.prev.result
  /\ CreatedCount = 1

\* a Gateway call that failed although the Gateway could have answered it
Forced(call) ==
  \A i \in DOMAIN call.calls :
     call.calls[i].ok \/ \A j \in DOMAIN customers : customers[j].id # call.arg

\* C13: getPrimaryCustomerId applied to its own result returns that result:
\* getPrimaryCustomerId(getPrimaryCustomerId(x)) = getPrimaryCustomerId(x),
\* for every configuration of duplicate markers.
C13_PrimaryIdempotent ==
  ( /\ Finished("getPrimaryCustomerId") /\ idr.prev.op = "getPrimaryCustomerId"
    /\ idr.cur.arg = idr.prev.result
    /\ Forced(idr.cur) /\ Forced(idr.prev) ) =>
     idr.cur.result = idr.prev.result

\* ------------------------------------------------------------------------
\* Properties of the Session Builder: identity and metadata
\* ------------------------------------------------------------------------
LookupFailed ==
  \E i \in DOMAIN co.calls :
     co.calls[i].name = "customers.list" /\ co.calls[i].outcome # "ok"

CreateOutcomes == {co.calls[i].outcome : i \in CreateCalls}

\* C14: when the customer lookup of a checkout request fails, the request goes
\* on to request the session with the buyer's email as customer_email and no
\* customer, and it answers 500 only if the session creation itself failed.
C14_LookupFailureDoesNotBlock ==
  LookupFailed =>
     /\ co.pc \in {"create", "done"}
     /\ co.customer = "customer_email"
     /\ co.pc = "done" =>
          /\ CreateCalls # {}
          /\ co.sessionParams.customer_email = "userEmail"
          /\ co.sessionParams.customer = ""
          /\ (co.resp = 500) <=> (CreateOutcomes \cap Causes # {})
          /\ (co.resp = 200) <=> (CreateOutcomes = {"ok"})

\* the lookup failed and the session was created with the email attached
C14_Witness ==
  /\ LookupFailed /\ co.pc = "done" /\ co.resp = 200
  /\ co.sessionParams.customer_email = "userEmail"
  /\ co.sessionParams.line_items # << >>

\* C15: every session the Session Builder requests carries the settlement
\* plan in its session-level metadata and in its payment-intent metadata, and
\* the two copies are equal.
C15_PlanInBothMetadata ==
  CreateCalls # {} =>
     /\ co.sessionParams.metadata.transfer_groups.present
     /\ co.sessionParams.payment_intent_data.metadata.transfer_groups.present
     /\ co.sessionParams.metadata.transfer_groups
          = co.sessionParams.payment_intent_data.metadata.transfer_groups

\* ------------------------------------------------------------------------
\* Properties of the Reconciler: plan decoding, short-circuit, fallback
\* ------------------------------------------------------------------------
NoTransferOfCharge == \A d \in Accounts : CountTransfers(TheCharge, d) = 0

Acknowledged == (Returned(1) /\ inv[1].sig = "valid") => inv[1].resp = 200

\* the plan of the charge is absent, or malformed in some part
PlanAbsentOrMalformed ==
  CASE handler = "webhooks_1" ->
         \/ cfg.transferData.shape # "list"
         \/ \E i \in DOMAIN cfg.transferData.list : cfg.transferData.list[i] = Malformed
    [] handler = "part_008" -> cfg.sessIds = << >> /\ cfg.piIds = << >>
    [] OTHER ->
         /\ cfg.sessIds = << >>
         /\ \A i \in DOMAIN cfg.items : cfg.items[i].meta = NoAccount

\* the plan of the charge is absent, or holds no well-formed entry
NoUsablePlan ==
  /\ PlanAbsentOrMalformed
  /\ handler = "webhooks_1" =>
        \A i \in DOMAIN cfg.transferData.list : cfg.transferData.list[i] = Malformed

\* C16: when the plan in the metadata is absent or malformed
\* (absent key, unparsable JSON, a parsed value that is not a list of
\* {amount, destination}), no transfer is created for the charge and the
\* notification is answered 200.
C16_NoPlanNoTransfer == PlanAbsentOrMalformed => (NoTransferOfCharge /\ Acknowledged)

\* the same for a plan that is absent, unparsable, not a list, or a list
\* without any well-formed entry
NoUsablePlanNoTransfer == NoUsablePlan => (NoTransferOfCharge /\ Acknowledged)

GatewayWrites == {"transfers.create", "charges.update", "checkout.sessions.update"}

\* C17: in part_008, when the payment intent of the notification already
\* carries a transfer, the invocation creates no transfer and makes no Gateway
\* write (no charge update, no session update), for each notification kind.
C17_RecordedTransferNoWrite ==
  (handler = "part_008" /\ cfg.piTransfer) =>
     /\ NoTransferOfCharge
     /\ \A i \in DOMAIN inv[1].calls : inv[1].calls[i] \notin GatewayWrites

\* C18: in part_008, a payment_intent.succeeded or charge.succeeded
\* notification for a charge whose connected_account_ids are in the session
\* metadata only still gets the plan's transfers issued.
C18_FallbackToSessionMetadata ==
  ( /\ handler = "part_008" /\ cfg \in SessionOnlyCharges /\ ~anyFail
    /\ Returned(1) /\ inv[1].sig = "valid"
    /\ inv[1].kind \in {"payment_intent.succeeded", "charge.succeeded"} ) =>
     \A d \in PlanDestinations(cfg.sessIds) : CountTransfers(TheCharge, d) >= 1

\* the destinations the loop entered by the invocation of process p walks
LoopPlan(p) ==
  IF handler \in {"webhooks_1", "webhooks_2"} THEN PlannedQueue(cfg.transferData.list)
  ELSE SettlementQueue(cfg, inv[p].ids)

\* the destination at position i of the plan had one of its own calls fail
FailedAt(p, i) == inv[p].seen[i].outcome = "failed"

\* C19: fan-out with isolated failure.  In the part_008 and webhooks_1
\* handlers, once an invocation has entered a transfer loop, the destinations
\* it has finished followed by those still queued are exactly the plan, in
\* order, whatever calls failed; so when it returns every destination of the
\* plan was walked, and each one ended with its transfer created, found
\* existing, or with a failure of one of its own calls.  A failure for one
\* destination never removes another destination from the walk.
C19_FanOutIsolatedFailure ==
  (handler \in {"part_008", "webhooks_1"} /\ inv[1].path # "") =>
    LET plan == LoopPlan(1)
        seen == inv[1].seen
        left == inv[1].queue
    IN  /\ Len(seen) + Len(left) = Len(plan)
        /\ \A i \in DOMAIN seen : seen[i].acct = plan[i].acct
        /\ \A j \in DOMAIN left : left[j] = plan[Len(seen) + j]
        /\ Returned(1) => left = << >>
        /\ \A i \in DOMAIN seen :
             seen[i].outcome = "created" =>
               \E t \in Range(transfers) :
                 t.src = TheCharge /\ t.dest = plan[i].acct /\ t.amount = plan[i].amount

\* a two-destination plan whose first destination failed and whose second
\* destination got its transfer in the same invocation
C19_Witness ==
  /\ handler = "part_008"
  /\ Returned(1)
  /\ Len(inv[1].seen) = 2
  /\ FailedAt(1, 1)
  /\ inv[1].seen[2].outcome = "created"
  /\ inv[1].seen[1].acct # inv[1].seen[2].acct

\* the transfers sourced from the charge to destination d, with amount a
TransfersOfCharge(d, a) ==
  {i \in DOMAIN transfers :
     transfers[i].src = TheCharge /\ transfers[i].dest = d /\ transfers[i].amount = a}

\* C20: invocations for another charge that pays a shared destination, run
\* before, after or between the calls of the charge's invocations, leave the
\* charge's transfers what they are without them: no destination ever has
\* two transfers sourced from the charge, and when an invocation that walked
\* the plan returns, every destination of the plan has exactly one, of the
\* planned amount; in particular a transfer of the other charge never makes
\* the charge's transfer to the shared destination be skipped.
C20_DifferentChargesIndependent ==
  /\ \A d \in Accounts : CountTransfers(TheCharge, d) <= 1
  /\ (Returned(1) /\ inv[1].path # "") =>
       LET plan == LoopPlan(1)
       IN  \A i \in DOMAIN plan :
             Cardinality(TransfersOfCharge(plan[i].acct, plan[i].amount)) = 1

\* the part of the statement that holds: an iteration ends on "continue" only
\* when a transfer sourced from the charge itself went to that destination
SkippedOnlyForOwnTransfer ==
  \A i \in DOMAIN inv[1].seen :
     inv[1].seen[i].outcome = "exists" => CountTransfers(TheCharge, inv[1].seen[i].acct) >= 1

\* C21: in the webhooks_2 handler every notification with a valid signature
\* is answered 200, including a paid session without a payment-intent
\* reference and an invocation whose payment-intent retrieval fails.
C21_SessionHandlerAlwaysAcknowledges ==
  handler = "webhooks_2" =>
     \A p \in Procs : (Returned(p) /\ inv[p].sig = "valid") => inv[p].resp = 200

\* the part of the statement that holds: once the payment intent is
\* retrieved, nothing that happens in the replay changes the 200
AcknowledgedAfterRetrieval ==
  (handler = "webhooks_2" /\ Returned(1) /\ inv[1].path # "") => inv[1].resp = 200

\* the plan of the session the builder created
BuiltPlan == co.sessionParams.metadata.transfer_groups.plan

\* the paid session is the one createMultiVendorCheckoutSession built
BuiltByCheckout ==
  cfg # Unpaid /\ cfg.group = co.sessionParams.payment_intent_data.transfer_group

\* C22: for a session built by createMultiVendorCheckoutSession whose plan
\* has a destination, once the payment succeeded and a
\* checkout.session.completed or payment_intent.succeeded notification was
\* processed with every Gateway call succeeding, a transfer exists for each
\* destination of the plan with the plan's amount.  (After the handler has
\* returned nothing else creates transfers, so "eventually" is "by then".)
C22_EndToEndSettlement ==
  ( /\ BuiltByCheckout /\ BuiltPlan # << >>
    /\ Returned(1) /\ inv[1].sig = "valid"
    /\ inv[1].kind \in {"checkout.session.completed", "payment_intent.succeeded"} )
  => \A i \in DOMAIN BuiltPlan :
        \E t \in Range(transfers) :
           t.src = TheCharge /\ t.dest = BuiltPlan[i].acct /\ t.amount = BuiltPlan[i].amount

\* C23: in the webhooks_3 handler, for a charge carrying the configured
\* transfer group, checkout.session.completed and charge.succeeded
\* notifications handled in any order and repetition, every call succeeding,
\* leave at most one transfer per connected account sourced from the charge,
\* and exactly one for every listed account once an invocation that walked
\* the accounts has returned.
C23_OnePerAccountInSplitHandler ==
  (handler = "webhooks_3" /\ ~anyFail /\ cfg.group = ACCOUNT_GROUP_ID) =>
     /\ \A d \in Accounts : CountTransfers(TheCharge, d) <= 1
     /\ (Returned(1) /\ inv[1].path # "") =>
          \A d \in Range(inv[1].ids) : CountTransfers(TheCharge, d) = 1

\* no call made for a destination failed in the invocation of process p
NoDestinationFailed(p) ==
  \A i \in DOMAIN inv[p].seen : inv[p].seen[i].outcome # "failed"

\* C24: recovery after partial failure in part_008, notifications handled
\* one after another and any call allowed to fail.  No destination ever has
\* two transfers sourced from the charge (a later invocation creates none
\* for a destination already paid), and when an invocation has walked the
\* plan without a failed call for any destination, every destination of the
\* plan has exactly one transfer, of the planned amount: the ones an earlier
\* invocation failed to create have been created by this one.
C24_RecoveryAfterPartialFailure ==
  handler = "part_008" =>
     /\ \A d \in Accounts : CountTransfers(TheCharge, d) <= 1
     /\ (Returned(1) /\ inv[1].path # "" /\ NoDestinationFailed(1)) =>
          LET plan == LoopPlan(1)
          IN  \A i \in DOMAIN plan :
                /\ CountTransfers(TheCharge, plan[i].acct) = 1
                /\ Cardinality(TransfersOfCharge(plan[i].acct, plan[i].amount)) = 1

\* the second notification, after one in which a call failed: it found the
\* first destination paid and created the transfer of the second
C24_Witness ==
  /\ handler = "part_008" /\ delivered = 2 /\ anyFail /\ Returned(1)
  /\ Len(inv[1].seen) = 2
  /\ inv[1].seen[1].outcome = "exists"
  /\ inv[1].seen[2].outcome = "created"
  /\ inv[1].seen[1].acct # inv[1].seen[2].acct
  /\ inv[1].calls = << "webhooks.constructEvent", "paymentIntents.retrieve",
                       "charges.retrieve", "charges.retrieve", "paymentIntents.retrieve",
                       "checkout.sessions.list", "transfers.list", "transfers.list",
                       "accounts.retrieve", "transfers.create" >>

\* C25: for every destination d of a built plan, the amount the Reconciler
\* computes for d's subtotal (part_008 lines 151-153) equals the Builder's
\* transferAmount for that subtotal, subtotal_d - round-half-up(subtotal_d x
\* 10%) (checkout/route.ts lines 125-127).
C25_ReconcilerAmountEqualsPlan ==
  (PlanBuilt /\ AllPriced) =>
     \A k \in DOMAIN co.transferGroups :
        LET subtotal == Subtotal(co.items.list, co.transferGroups[k].acct)
        IN  ItemPathTransferAmount(subtotal) = TransferAmount(subtotal)

\* the subtotals a destination of the charge can have: the totals of the
\* sets of its line items
PossibleSubtotals ==
  { SumAmounts([i \in 1..Len(sel) |-> cfg.items[sel[i]]]) :
      sel \in { q \in UNION { [1..n -> DOMAIN cfg.items] : n \in 0..Len(cfg.items) } :
                  \A i, j \in DOMAIN q : i < j => q[i] < q[j] } }

\* C26: for a charge with two destinations, in part_008 and in webhooks_3,
\* on the item path and on the path taken when no line item is matched,
\* every transfer sourced from the charge is a subtotal of line items minus
\* 10% of that subtotal (whichever items the destination owns, and whichever
\* of the two roundings is applied), never an even share of the charge.
C26_PerDestinationNeverEvenSplit ==
  (handler \in {"part_008", "webhooks_3"} /\ Cardinality(Range(cfg.sessIds)) = 2) =>
     \A i \in DOMAIN transfers :
        transfers[i].src = TheCharge =>
           \E sub \in PossibleSubtotals :
              \/ transfers[i].amount = ItemPathTransferAmount(sub)
              \/ transfers[i].amount = sub - RoundTenth(sub)

\* C27: in an invocation of part_008, the Gateway call made just before each
\* transfers.create is the existing-transfer lookup transfers.list.
C27_LookupJustBeforeCreate ==
  handler = "part_008" =>
     \A p \in Procs : \A i \in DOMAIN inv[p].calls :
        inv[p].calls[i] = "transfers.create" =>
           (i > 1 /\ inv[p].calls[i - 1] = "transfers.list")

\* what holds instead: the lookup of a destination is followed by its
\* account retrieval, and the creation follows that retrieval; no call for
\* another destination comes in between
LookupThenAccountThenCreate ==
  handler = "part_008" =>
     \A p \in Procs : \A i \in DOMAIN inv[p].calls :
        inv[p].calls[i] = "transfers.create" =>
           /\ i > 2
           /\ inv[p].calls[i - 1] = "accounts.retrieve"
           /\ inv[p].calls[i - 2] = "transfers.list"

\* no account is named twice in the list
NamedOnce(ids) == \A i, j \in DOMAIN ids : ids[i] = ids[j] => i = j

\* C28: the connected_account_ids a created session carries, at the session
\* level and at the payment level, name each destination account at most
\* once, also when several cart items share a destination account.
C28_ConnectedAccountIdsIsASet ==
  (co.pc = "done" /\ co.body.url # "") =>
     /\ NamedOnce(co.sessionParams.metadata.connected_account_ids.plan)
     /\ NamedOnce(co.sessionParams.payment_intent_data.metadata.connected_account_ids.plan)

\* C29: when the buyer's email has identities at the Gateway, the identity
\* the Session Builder's lookup returns (and createMultiVendorCheckoutSession
\* attaches as sessionParams.customer) is the one findStripeCustomerByEmail
\* selects for that email: payment source first, then most recently created.
\* (Stated for an email already in lower case, where both lookups list the
\* same identities.)
C29_BuilderAttachesResolvedIdentity ==
  ( /\ idr.pc = "done" /\ idr.cur.op = "findCustomerByEmail"
    /\ idr.cur.arg = toLowerCase(idr.cur.arg)
    /\ \A i \in DOMAIN idr.cur.calls : idr.cur.calls[i].ok
    /\ customers_list(customers, idr.cur.arg) # << >> )
  => idr.cur.result
       = BestCustomer(customers_list(customers, toLowerCase(idr.cur.arg))).customerId

RECURSIVE PricedItems(_, _)
\* the items whose price was retrieved and has a unit_amount, in cart order
\* (the i-th call of the request is the lookup of the i-th item)
PricedItems(items, calls) ==
  IF items = << >> THEN << >>
  ELSE LET n == Len(items)
           before == PricedItems(SubSeq(items, 1, n - 1), calls)
       IN  IF calls[n].outcome = "ok" /\ unit_amount(items[n].priceId) > 0
           THEN Append(before, items[n]) ELSE before

\* C30: in createMultiVendorCheckoutSession a failing price lookup does not
\* abort the other items: once the item loop is over, every item of the cart
\* was looked up, the line items are exactly the items whose price was
\* retrieved (with a unit_amount), in order, the plan accounts for exactly
\* those of them that have a destination, and a request that is answered
\* has attempted the session creation.
C30_PriceFailureIsolated ==
  (co.method = "POST" /\ co.items.defined /\ PlanBuilt) =>
     LET items == co.items.list
         priced == PricedItems(items, co.calls)
     IN  /\ Len(co.calls) >= Len(items)
         /\ \A i \in DOMAIN items : co.calls[i].name = "prices.retrieve"
         /\ co.lineItems = [i \in DOMAIN priced |->
                              [price |-> priced[i].priceId, quantity |-> priced[i].quantity]]
         /\ PlanAmounts(co.transferGroups) + PlanFees(co.transferGroups)
               = CartTotal(SelectSeq(priced, LAMBDA it : it.stripeConnectedAccountId # NoAccount))
         /\ \A d \in Accounts :
               (\E k \in DOMAIN co.transferGroups : co.transferGroups[k].acct = d)
                 <=> (\E i \in DOMAIN priced : priced[i].stripeConnectedAccountId = d)
         /\ co.pc = "done" => CreateCalls # {}

\* the first lookup of a two-item cart failed; the second item is a line
\* item, is in the plan, and the session was created
C30_Witness ==
  /\ co.pc = "done" /\ co.resp = 200 /\ co.body.url # ""
  /\ Len(co.items.list) = 2
  /\ co.calls[1].outcome = "rejected" /\ co.calls[2].outcome = "ok"
  /\ co.lineItems = << [price |-> co.items.list[2].priceId,
                        quantity |-> co.items.list[2].quantity] >>
  /\ Len(co.transferGroups) = 1
  /\ co.transferGroups[1].acct = co.items.list[2].stripeConnectedAccountId

\* the line items that charge every submitted item, in cart order
AllItemsAsLineItems ==
  [i \in DOMAIN co.items.list |->
     [price |-> co.items.list[i].priceId, quantity |-> co.items.list[i].quantity]]

\* C31: every cart item submitted to a checkout request that answers 200 with
\* a session URL is charged: the line items of the created session contain
\* each submitted item (same price id and quantity); no item is dropped
\* because its price lookup failed.
C31_EverySubmittedItemCharged ==
  (co.pc = "done" /\ co.method = "POST" /\ co.items.defined
     /\ co.resp = 200 /\ co.body.url # "")
  => co.sessionParams.line_items = AllItemsAsLineItems

\* invocation 1 receives the answer of its existing-transfer lookup
LookupAnswered == inv[1].pc = "t_list" /\ inv'[1] # inv[1]

\* C32: the existing-transfer lookup is complete: when a transfer sourced from
\* the charge to the destination exists at the Gateway and the lookup for
\* that destination is answered, the iteration ends on "continue" (no account
\* retrieval, no creation), however many transfers of other charges to the
\* same destination share the transfer group.
C32_ExistingTransferLookupComplete ==
  [][ (LookupAnswered /\ CountTransfers(TheCharge, Head(inv[1].queue).acct) >= 1)
        => /\ Len(inv'[1].seen) = Len(inv[1].seen) + 1
           /\ inv'[1].seen[Len(inv'[1].seen)]
                = [acct |-> Head(inv[1].queue).acct, outcome |-> "exists"] ]_vars

\* the accounts the items of the submitted cart name
ItemAccounts ==
  {co.items.list[i].stripeConnectedAccountId : i \in DOMAIN co.items.list} \ {NoAccount}

\* C33: every transfer the Reconciler creates for a charge goes to an account
\* that is the destination account of at least one item of the cart that
\* produced the charge, also when the checkout request supplied
\* connectedAccountIds in its body.
C33_TransfersOnlyToItemAccounts ==
  \A i \in DOMAIN transfers :
     transfers[i].src = TheCharge => transfers[i].dest \in ItemAccounts

\* C35: ensureValidStripeCustomer, called with an email, creates a new
\* identity only when no identity exists for the email; in particular a
\* failed lookup while identities exist creates no additional identity.
C35_CreatesOnlyWhenNoneExists ==
  [][ (idr.cur.op = "ensureValidStripeCustomer" /\ idr.cur.arg # ""
         /\ customers' # customers)
        => Returned11 = << >> ]_vars

\* the part of the statement that holds: after a lookup that succeeded, an
\* identity is created only when none exists for the email
CreatesOnlyWhenNoneFound ==
  [][ (idr.cur.op = "ensureValidStripeCustomer" /\ idr.cur.arg # ""
         /\ customers' # customers /\ AllOk(idr.cur))
        => Returned11 = << >> ]_vars

\* the same identities as data, listed in every order
Listings(data) ==
  LET n == Len(data)
      perms == {f \in [1..n -> 1..n] : \A i, j \in 1..n : f[i] = f[j] => i = j}
  IN  {[i \in 1..n |-> data[f[i]]] : f \in perms}

\* no two of the identities were created in the same second
DistinctCreationTimes(data) ==
  \A i, j \in DOMAIN data : data[i].created = data[j].created => i = j

\* C36: the identity findStripeCustomerByEmail selects depends on the set of
\* identities for the email only, not on the order in which the Gateway lists
\* them: listed in any other order, the same identities give the identity
\* the call returned, also when two of them have equal creation times.
C36_SelectionIndependentOfListingOrder ==
  (Finished("findStripeCustomerByEmail") /\ idr.cur.calls # << >> /\ AllOk(idr.cur)) =>
     \A data \in Listings(Returned11) : BestCustomer(data).customerId = idr.cur.result

\* the part of the statement that holds: identities with pairwise distinct
\* creation times give the same identity in every listing order
IndependentOfOrderWithoutTies ==
  ( /\ Finished("findStripeCustomerByEmail") /\ idr.cur.calls # << >> /\ AllOk(idr.cur)
    /\ DistinctCreationTimes(Returned11) ) =>
     \A data \in Listings(Returned11) : BestCustomer(data).customerId = idr.cur.result

\* C34: for any interleaving of two concurrent ensureValidStripeCustomer calls
\* for the same email, starting from a store with no identity for the email,
\* at most one identity is created for the email, and once both calls have
\* returned they have returned the same identity id.
C34_ConcurrentEnsureCreatesOne ==
  /\ Len(customers_list(customers, "bob@x.com")) <= 1
  /\ (\A p \in Procs : idc[p].pc = "done") => idc[1].cur.result = idc[2].cur.result

\* the part of the statement that holds: when the lookup of one call is
\* answered after the other call has created its identity, one identity
\* exists and both calls return it
AgreeWhenOneCreated ==
  ((\A p \in Procs : idc[p].pc = "done") /\ Len(customers_list(customers, "bob@x.com")) = 1)
    => idc[1].cur.result = idc[2].cur.result

\* C37: a checkout request whose body has no items field is rejected exactly
\* like an empty cart: 400 {error: "Cart is empty"} with no Gateway call.
C37_MissingItemsRejectedAsEmptyCart ==
  (co.pc = "done" /\ co.method = "POST" /\ ~co.items.defined) =>
     /\ co.resp = 400
     /\ co.body = [NoBody EXCEPT !.error = "Cart is empty"]
     /\ co.calls = << >>

\* the part of the statement that holds: the request makes no Gateway call
MissingItemsNoGatewayCall ==
  (co.pc = "done" /\ co.method = "POST" /\ ~co.items.defined) => co.calls = << >>

\* the cart has items of two or more vendor accounts and no platform item
SeveralVendorsNoPlatformItem ==
  /\ co.method = "POST" /\ co.items.defined
  /\ Cardinality(ItemAccounts) >= 2
  /\ \A i \in DOMAIN co.items.list : co.items.list[i].stripeConnectedAccountId # NoAccount

\* C38: in the per-account checkout variant, for a cart whose items belong to
\* two or more vendor accounts and that has no platform item, no
\* session-creation call is made for an empty group of items, and the
\* request whose session creations all succeeded is answered 200 with a
\* session URL.
C38_NoSessionForEmptyGroup ==
  SeveralVendorsNoPlatformItem =>
     /\ \A k \in DOMAIN co.chains :
          co.chains[k].pc \in {"create", "done"} => co.chains[k].line_items # << >>
     /\ (co.pc = "done" /\ \A k \in DOMAIN co.chains : co.chains[k].outcome = "ok")
          => (co.resp = 200 /\ co.body.url # "")

\* the part of the statement that holds: when every session creation of such
\* a cart succeeded, the request is answered 200 with a session URL
SeveralVendorsAnswered ==
  (SeveralVendorsNoPlatformItem /\ co.pc = "done"
     /\ \A k \in DOMAIN co.chains : co.chains[k].outcome = "ok")
  => (co.resp = 200 /\ co.body.url # "")


====
